---- MODULE Spec2Model ----
(***************************************************************************)
(* The avalanche virtual-DOM reconciler (avalanche/src/vdom.rs) driven     *)
(* against the DOM renderer of avalanche-web (avalanche-web/src/lib.rs).   *)
(*                                                                         *)
(* A reconciler state S is a record                                        *)
(*   tree : node id -> VNode plus the tree container's parent pointer and  *)
(*          ordered child list,                                            *)
(*   next : the id the tree container gives the next node (ids are never   *)
(*          reused),                                                       *)
(*   dom  : native handle -> ordered list of the handles under it, as the  *)
(*          renderer keeps it,                                             *)
(*   log  : the renderer calls and reconciler events of the current turn,  *)
(*   err  : the panic message once a turn has aborted.                     *)
(* Every function of vdom.rs is an operator from S to S; a turn is one     *)
(* action.  Indices are 0-based as in the source; TLA+ sequences are       *)
(* 1-based, hence the "+ 1" at every sequence access.                      *)
(*                                                                         *)
(* sched is the WebScheduler of avalanche-web: its task queue, the timeout *)
(* messages posted to the window and not yet delivered, and the record of  *)
(* the tasks run so far.  offset is the children_offset of the handle the  *)
(* root is mounted on: the number of children the element had before the   *)
(* mount, which the renderer's indices skip.                               *)
(***************************************************************************)
EXTENDS Integers, Sequences, FiniteSets, TLC

VARIABLES tree, next, dom, log, err, gen, sched, offset

vars == <<tree, next, dom, log, err, gen, sched, offset>>

\* ------------------------------------------------------------------ bounds

\* Longest child list a native component renders in the general model.
MaxLen == 2

\* Turns taken after the mount.
MaxTurns == 2

\* Most keyed children of the permuted instance.
PermN == 3

\* The number of keys, and the longest list, of the keyed children.
KeyN == 3

\* Increments of the counter.
MaxCount == 100

\* Most children the mount element has before the mount.
MaxOffset == 2

\* Tasks scheduled from outside a running task.
MaxTasks == 4

\* Most tasks a running task schedules.
MaxSpawn == 2

\* ------------------------------------------------------------------ values

NoErr == ""
DYNAMIC_CHILDREN_ERR == "Dynamic components must be provided keys."
NON_NATIVE_CHILDREN_ERR == "Expected non-native Oak component to have 1 child."
NATIVE_PARENT_ERR == "native parent of a component with updated native identity"
ROOT_NATIVE_ERR == "native_parent has native_type"
ASSERT_NATIVE_ERR == "assertion failed: native_handle.is_some() == native_type.is_some()"
ASSERT_LEN_ERR == "assertion failed: children.len() == node.len(tree)"
UNWRAP_ERR == "called Option::unwrap() on a None value"
TREE_ERR == "invalid node"
BORROW_ERR == "already borrowed: BorrowMutError"

\* Option::None of a NodeId, a NativeHandle, a usize and a NativeType.
NoNode == -1
NoHandle == -1
NoIdx == -1
None == "None"

\* usize::MAX of the native_indices_map initialiser; any value that is no index.
USIZE_MAX == 1000000

\* ------------------------------------------------------------------ views
\* A View: ty is the component type (type_id), loc and key its identity
\* (loc 0 and key 0 are None), upd what updated() reports, kids what render
\* returns from the props (the children of a HasChildrenMarker for a native
\* component, the single child otherwise), hook the call site of the state
\* hook the component reads (0: none); a component with a hook renders the
\* value of its state cell, initialised to kids.

NoView == [ty |-> "none"]

Unit == [ty |-> "unit", loc |-> 0, key |-> 0, upd |-> FALSE, kids |-> <<>>, hook |-> 0]

NativeTys == {"root", "div", "text", "textb"}

\* Component::native_type: fixed by the component type.
native_type(view) == IF view.ty \in NativeTys THEN view.ty ELSE None

Text(k, u) == [ty |-> "text", loc |-> 1, key |-> k, upd |-> u, kids |-> <<>>, hook |-> 0]

TextB(u) == [ty |-> "textb", loc |-> 2, key |-> 0, upd |-> u, kids |-> <<>>, hook |-> 0]

Wrap(u, c) == [ty |-> "wrap", loc |-> 3, key |-> 0, upd |-> u, kids |-> <<c>>, hook |-> 0]

SWrap(c) == [ty |-> "swrap", loc |-> 4, key |-> 0, upd |-> FALSE, kids |-> <<c>>, hook |-> 1]

SDiv(l) == [ty |-> "div", loc |-> 5, key |-> 0, upd |-> FALSE, kids |-> l, hook |-> 1]

RootView(c) == [ty |-> "root", loc |-> 6, key |-> 0, upd |-> FALSE, kids |-> <<c>>, hook |-> 0]

\* A native component that renders the children it is given; its props
\* differ from the last render's.
Div(l) == [ty |-> "div", loc |-> 5, key |-> 0, upd |-> TRUE, kids |-> l, hook |-> 0]

\* A Text whose text prop is the number n and differs from the last render's.
TextOf(n) == [ty |-> "text", loc |-> 1, key |-> 0, upd |-> TRUE, kids |-> <<>>, hook |-> 0,
              text |-> n]

\* A component with one state cell that renders the Text of the cell's number.
Counter(n) == [ty |-> "counter", loc |-> 7, key |-> 0, upd |-> FALSE, kids |-> <<TextOf(n)>>,
               hook |-> 1]

\* Uniquely represents a component amongst its children.
ChildId(view) == <<view.key, view.loc>>

\* ------------------------------------------------------------------ state

Fail(S, msg) ==
    IF S.err = NoErr
    THEN [S EXCEPT !.err = msg, !.log = Append(@, [op |-> "panic", msg |-> msg])]
    ELSE S

Emit(S, e) == [S EXCEPT !.log = Append(@, e)]

\* VNode::component plus the tree container's links.
VNodeComponent(component, parent) ==
    [component |-> component, native_handle |-> NoHandle, native_type |-> None,
     state |-> <<>>, dirty |-> FALSE, parent |-> parent, children |-> <<>>]

\* The id Tree::push gives the node it adds.
NewId(S) == S.next

\* Tree::push: appends a node to parent's child list; the new id is NewId(S).
Push(S, parent, vnode) ==
    LET id == NewId(S) IN
    [Emit(S, [op |-> "push", parent |-> parent, node |-> id]) EXCEPT
        !.next = id + 1,
        !.tree = [n \in DOMAIN S.tree \cup {id} |->
                     IF n = id THEN vnode
                     ELSE IF n = parent THEN [S.tree[n] EXCEPT !.children = Append(@, id)]
                     ELSE S.tree[n]]]

len(S, node) == Len(S.tree[node].children)

child(S, node, i) == S.tree[node].children[i + 1]

RECURSIVE Subtree(_, _)
Subtree(S, node) ==
    {node} \cup UNION {Subtree(S, S.tree[node].children[i]) : i \in 1..len(S, node)}

RemoveAt(s, i) == [j \in 1..(Len(s) - 1) |-> IF j < i + 1 THEN s[j] ELSE s[j + 1]]

SwapAt(s, i, j) == [s EXCEPT ![i + 1] = s[j + 1], ![j + 1] = s[i + 1]]

\* NodeId::swap_children.
swap_children_tree(S, node, i, j) ==
    [Emit(S, [op |-> "tree_swap", node |-> node, a |-> i, b |-> j]) EXCEPT
        !.tree[node].children = SwapAt(@, i, j)]

\* NodeId::remove_child: drops the whole subtree; a dropped VNode drops its
\* NativeHandle, so the renderer keeps no child list for it any more.
remove_child_tree(S, node, i) ==
    LET gone == Subtree(S, child(S, node, i))
        handles == {S.tree[n].native_handle : n \in gone}
    IN [Emit(S, [op |-> "tree_remove", node |-> node, index |-> i]) EXCEPT
          !.tree = [n \in DOMAIN S.tree \ gone |->
                       IF n = node THEN [S.tree[n] EXCEPT !.children = RemoveAt(@, i)]
                       ELSE S.tree[n]],
          !.dom = [h \in DOMAIN S.dom \ handles |-> S.dom[h]]]

\* ------------------------------------------------------------------ renderer
\* WebRenderer over the DOM: a node has one parent, so appending, inserting
\* or replacing with a node that is already attached moves it.

Detach(d, c) == [h \in DOMAIN d |-> SelectSeq(d[h], LAMBDA x : x /= c)]

InsertAt(s, i, c) ==
    [j \in 1..(Len(s) + 1) |-> IF j < i + 1 THEN s[j] ELSE IF j = i + 1 THEN c ELSE s[j - 1]]

IndexOf(s, c) == IF \E j \in 1..Len(s) : s[j] = c
                 THEN (CHOOSE j \in 1..Len(s) : s[j] = c) - 1
                 ELSE NoIdx

\* Node.insertBefore(c, ref); ref = NoHandle is null (append).
InsertBefore(d, p, c, ref) ==
    LET ref2 == IF ref = c
                THEN (LET k == IndexOf(d[p], c) IN
                      IF k + 2 <= Len(d[p]) THEN d[p][k + 2] ELSE NoHandle)
                ELSE ref
        d1 == Detach(d, c)
    IN IF ref2 = NoHandle THEN [d1 EXCEPT ![p] = Append(@, c)]
       ELSE [d1 EXCEPT ![p] = InsertAt(@, IndexOf(@, ref2), c)]

\* Mutant: every handle indexes its children from the first.
children_offset_Zero(handle) == 0

\* WebNativeHandle::children_offset: the child count at the mount for the
\* mount element, 0 for every element the renderer creates.
children_offset(handle) == IF handle = 0 THEN offset ELSE 0

\* The i-th child the mount element had before the mount.
Foreign(i) == -1 - i

\* Mutant: the renderer makes the element twice.
create_component_Twice(S, node) ==
    LET S1 == Emit(Emit(S, [op |-> "create_component", node |-> node]),
                   [op |-> "create_component", node |-> node])
    IN [S1 EXCEPT !.tree[node].native_handle = node,
                  !.dom = [h \in DOMAIN S.dom \cup {node} |-> IF h = node THEN <<>> ELSE S.dom[h]]]

\* Mutant: the handle create_component returns is not stored in the instance.
create_component_NotStored(S, node) ==
    LET S1 == Emit(S, [op |-> "create_component", node |-> node])
    IN [S1 EXCEPT !.dom = [h \in DOMAIN S.dom \cup {node} |-> IF h = node THEN <<>> ELSE S.dom[h]]]

\* Renderer::create_component: the handle of node's native element.
create_component(S, node) ==
    LET S1 == Emit(S, [op |-> "create_component", node |-> node])
    IN [S1 EXCEPT !.tree[node].native_handle = node,
                  !.dom = [h \in DOMAIN S.dom \cup {node} |-> IF h = node THEN <<>> ELSE S.dom[h]]]

append_child(S, parent_handle, child_handle) ==
    LET S1 == Emit(S, [op |-> "append_child", parent |-> parent_handle, child |-> child_handle])
    IN [S1 EXCEPT !.dom = InsertBefore(S.dom, parent_handle, child_handle, NoHandle)]

insert_child(S, parent_handle, index, child_handle) ==
    LET S1 == Emit(S, [op |-> "insert_child", parent |-> parent_handle, index |-> index,
                       child |-> child_handle])
        l == S.dom[parent_handle]
        at == index + children_offset(parent_handle)
        component_after == IF at < Len(l) THEN l[at + 1] ELSE NoHandle
    IN [S1 EXCEPT !.dom = InsertBefore(S.dom, parent_handle, child_handle, component_after)]

\* Mutant: the lesser child is moved behind the greater one and the greater
\* one stays where it is.
swap_children_Rotates(S, parent_handle, a, b) ==
    LET S1 == Emit(S, [op |-> "swap_children", parent |-> parent_handle, a |-> a, b |-> b])
        l == S.dom[parent_handle]
        lesser == (IF a < b THEN a ELSE b) + children_offset(parent_handle)
        greater == (IF a < b THEN b ELSE a) + children_offset(parent_handle)
    IN IF a = b THEN S1
       ELSE IF greater >= Len(l) THEN Fail(S1, UNWRAP_ERR)
       ELSE [S1 EXCEPT !.dom[parent_handle] =
                          SubSeq(l, 1, lesser) \o SubSeq(l, lesser + 2, greater + 1)
                             \o <<l[lesser + 1]>> \o SubSeq(l, greater + 2, Len(l))]

swap_children(S, parent_handle, a, b) ==
    LET S1 == Emit(S, [op |-> "swap_children", parent |-> parent_handle, a |-> a, b |-> b])
        l == S.dom[parent_handle]
        k == children_offset(parent_handle)
    IN IF a = b THEN S1
       ELSE IF a + k >= Len(l) \/ b + k >= Len(l) THEN Fail(S1, UNWRAP_ERR)
       ELSE [S1 EXCEPT !.dom[parent_handle] = SwapAt(@, a + k, b + k)]

\* Mutant: the call is dropped before it reaches the renderer.
replace_child_Dropped(S, parent_handle, index, child_handle) == S

replace_child(S, parent_handle, index, child_handle) ==
    LET S1 == Emit(S, [op |-> "replace_child", parent |-> parent_handle, index |-> index,
                       child |-> child_handle])
        l == S.dom[parent_handle]
        at == index + children_offset(parent_handle)
    IN IF at >= Len(l) THEN Fail(S1, UNWRAP_ERR)
       ELSE IF l[at + 1] = child_handle THEN S1
       ELSE LET curr == l[at + 1]
                d1 == Detach(S.dom, child_handle)
            IN [S1 EXCEPT !.dom = [d1 EXCEPT ![parent_handle] =
                                     [j \in 1..Len(@) |-> IF @[j] = curr THEN child_handle ELSE @[j]]]]

remove_child(S, parent_handle, index) ==
    LET S1 == Emit(S, [op |-> "remove_child", parent |-> parent_handle, index |-> index])
        l == S.dom[parent_handle]
        at == index + children_offset(parent_handle)
    IN IF at >= Len(l) THEN Fail(S1, UNWRAP_ERR)
       ELSE [S1 EXCEPT !.dom[parent_handle] = RemoveAt(@, at)]

\* WebRenderer::truncate_children: the child at len is removed until there is
\* none.
truncate_children(S, parent_handle, length) ==
    LET S1 == Emit(S, [op |-> "truncate_children", parent |-> parent_handle, len |-> length])
        l == S.dom[parent_handle]
        at == length + children_offset(parent_handle)
    IN IF at >= Len(l) THEN S1
       ELSE [S1 EXCEPT !.dom[parent_handle] = SubSeq(l, 1, at)]

\* ------------------------------------------------------------------ state store

\* Mutant: the initializer runs on every access.
get_or_insert_with_Reinitialized(state, key, value) ==
    [k \in DOMAIN state \cup {key} |-> IF k = key THEN value ELSE state[k]]

\* ComponentStateAccess::get_or_insert_with: the map after the access.
get_or_insert_with(state, key, value) ==
    IF key \in DOMAIN state THEN state
    ELSE [k \in DOMAIN state \cup {key} |-> IF k = key THEN value ELSE state[k]]

\* component.render(context): the state map after the hooks ran.
RenderState(vnode) ==
    IF vnode.component.hook = 0 THEN vnode.state
    ELSE get_or_insert_with(vnode.state, vnode.component.hook, vnode.component.kids)

\* component.render(context): the rendered children.
RenderChildren(vnode) ==
    IF vnode.component.hook = 0 THEN vnode.component.kids
    ELSE RenderState(vnode)[vnode.component.hook]

\* The ancestors of node below its nearest native ancestor that are not dirty.
RECURSIVE CleanAncestors(_, _)
CleanAncestors(S, node) ==
    LET p == S.tree[node].parent
    IN IF p = NoNode THEN {}
       ELSE IF p \notin DOMAIN S.tree THEN {}
       ELSE IF S.tree[p].native_handle /= NoHandle THEN {}
       ELSE (IF S.tree[p].dirty THEN {} ELSE {p}) \cup CleanAncestors(S, p)

\* The render call of generate_vnode and update_vnode on the instance; the
\* event keeps the ancestors that are not dirty when render is called, the
\* generation the render context holds and the root's counter.
Render(S, node) ==
    LET S1 == Emit(S, [op |-> "render", node |-> node, clean |-> CleanAncestors(S, node),
                       gen |-> S.gen, vdom_gen |-> S.vdom_gen])
    IN [S1 EXCEPT !.tree[node].state = RenderState(S.tree[node])]

\* ------------------------------------------------------------------ vdom.rs

\* Mutant: the search stops at the node it is given.
child_with_native_handle_Self(S, node) == node

\* Traverses hierarchy until node with NativeHandle is found: the node, NoNode
\* at the end of the tree, or "panic" for a non-native node with two children.
RECURSIVE child_with_native_handle(_, _)
child_with_native_handle(S, node) ==
    IF S.tree[node].native_handle /= NoHandle THEN node
    ELSE IF len(S, node) = 0 THEN NoNode
    ELSE IF len(S, node) > 1 THEN -2
    ELSE child_with_native_handle(S, child(S, node, 0))

WalkPanics(S, node) == child_with_native_handle(S, node) = -2

\* Tree::get_mut_pair followed by the unwraps of native_type and native_handle.
PairErr(S, parent, native_child) ==
    IF parent = native_child THEN TREE_ERR
    ELSE IF S.tree[parent].native_type = None \/ S.tree[parent].native_handle = NoHandle
         THEN "parent is a native component"
    ELSE IF S.tree[native_child].native_type = None THEN UNWRAP_ERR
    ELSE NoErr

\* The panic of a get_mut_pair call or of the unwraps after it; the event
\* keeps the pair the call was made with.
PairFail(S, parent, native_child) ==
    IF S.err /= NoErr THEN S
    ELSE [S EXCEPT !.err = PairErr(S, parent, native_child),
                   !.log = Append(@, [op |-> "panic", msg |-> PairErr(S, parent, native_child),
                                      pair |-> <<parent, native_child>>])]

native_append_child(S, parent, c) ==
    IF S.err /= NoErr THEN S
    ELSE IF WalkPanics(S, c) THEN Fail(S, NON_NATIVE_CHILDREN_ERR)
    ELSE LET native_child == child_with_native_handle(S, c) IN
         IF native_child = NoNode THEN S
         ELSE IF PairErr(S, parent, native_child) /= NoErr THEN PairFail(S, parent, native_child)
         ELSE append_child(S, S.tree[parent].native_handle, S.tree[native_child].native_handle)

RECURSIVE generate_vnode(_, _)
RECURSIVE GenerateChildren(_, _, _, _, _)

\* Mutant: the new child's native element is never appended.
AppendIfNative_Never(S, node, c, is_native) == S

\* The end of one round of the children loops: S is the state after
\* generate_vnode on the new child c.
AppendIfNative(S, node, c, is_native) ==
    IF is_native THEN native_append_child(S, node, c) ELSE S

\* Mutant: the loop stops one child early.
RECURSIVE GenerateChildren_StopsEarly(_, _, _, _, _)
GenerateChildren_StopsEarly(S, node, children, i, is_native) ==
    IF S.err /= NoErr \/ i + 1 >= Len(children) THEN S
    ELSE GenerateChildren_StopsEarly(
           AppendIfNative(
             generate_vnode(Push(S, node, VNodeComponent(children[i + 1], node)), NewId(S)),
             node, NewId(S), is_native),
           node, children, i + 1, is_native)

\* The loop over the rendered children of generate_vnode, from child i on.
GenerateChildren(S, node, children, i, is_native) ==
    IF S.err /= NoErr \/ i >= Len(children) THEN S
    ELSE GenerateChildren(
           AppendIfNative(
             generate_vnode(Push(S, node, VNodeComponent(children[i + 1], node)), NewId(S)),
             node, NewId(S), is_native),
           node, children, i + 1, is_native)

\* Mutant: the children are generated before the instance's own element is
\* created.
GenerateRendered_CreatesLast(S, node, children, nt) ==
    IF nt /= None
    THEN create_component(
           GenerateChildren([S EXCEPT !.tree[node].native_type = nt], node, children, 0, FALSE),
           node)
    ELSE GenerateChildren([S EXCEPT !.tree[node].native_type = nt], node, children, 0, FALSE)

\* generate_vnode after render: S is the state after the render call, nt the
\* component's native_type().
GenerateRendered(S, node, children, nt) ==
    IF nt /= None
    THEN GenerateChildren(create_component([S EXCEPT !.tree[node].native_type = nt], node),
                          node, children, 0, TRUE)
    ELSE GenerateChildren([S EXCEPT !.tree[node].native_type = nt], node, children, 0, FALSE)

\* Mutant: the unit view is rendered like any other component.
generate_vnode_RendersUnit(S, node) ==
    IF S.err /= NoErr THEN S
    ELSE GenerateRendered(Render(S, node), node, RenderChildren(S.tree[node]),
                          native_type(S.tree[node].component))

\* Given a node with a new component, generates a virtual tree for its
\* children, and renders it.
generate_vnode(S, node) ==
    IF S.err /= NoErr THEN S
    ELSE IF S.tree[node].component.ty = "unit" THEN S
    ELSE GenerateRendered(Render(S, node), node, RenderChildren(S.tree[node]),
                          native_type(S.tree[node].component))

\* Mutant: the native parent found is marked dirty as well.
RECURSIVE propogate_update_MarksNative(_, _)
propogate_update_MarksNative(S, node) ==
    LET p == S.tree[node].parent IN
    IF p = NoNode THEN [S |-> S, node |-> NoNode]
    ELSE IF S.tree[p].native_handle /= NoHandle
    THEN [S |-> [S EXCEPT !.tree[p].dirty = TRUE], node |-> p]
    ELSE propogate_update_MarksNative([S EXCEPT !.tree[p].dirty = TRUE], p)

\* Given a node, goes up its hierarchy until finding the first parent with a
\* native handle; sets all nodes up to but excluding it to dirty.  The result
\* is the state and the parent found (NoNode for None).
RECURSIVE propogate_update_to_native_parent(_, _)
propogate_update_to_native_parent(S, node) ==
    LET p == S.tree[node].parent IN
    IF p = NoNode THEN [S |-> S, node |-> NoNode]
    ELSE IF S.tree[p].native_handle /= NoHandle THEN [S |-> S, node |-> p]
    ELSE propogate_update_to_native_parent([S EXCEPT !.tree[p].dirty = TRUE], p)

saturating_sub(a, b) == IF a >= b THEN a - b ELSE 0

\* HashMap::insert.
MapInsert(m, k, v) == [x \in DOMAIN m \cup {k} |-> IF x = k THEN v ELSE m[x]]

\* Mutant: the skip test without its negation.
ShouldSkip_Inverted(props_updated, state_updated) == props_updated \/ state_updated

\* if neither props nor state have changed we do not need to rerender
ShouldSkip(props_updated, state_updated) == ~(props_updated \/ state_updated)

\* Mutant: the rendered list is not checked for duplicates.
HasDuplicates_Unchecked(children_ids) == FALSE

\* check_duplicates.len() != children_ids.len()
HasDuplicates(children_ids) ==
    Cardinality({children_ids[i] : i \in 1..Len(children_ids)}) /= Len(children_ids)

\* Mutant: an instance is created for every rendered child.
IsNewChild_Always(in_place, id) == TRUE

\* in_place_components.get(id).is_none()
IsNewChild(in_place, id) == id \notin DOMAIN in_place

\* The loops of update_vnode that walk node's children from position i on and
\* record, for each, its identity and position in in_place_components (old
\* children only) and its native index in native_indices.  D holds the locals
\* of update_vnode: S, in_place, native_indices, curr_native_idx, taken (the
\* positions of children whose view was taken for a new instance), map.
RECURSIVE ScanChildren(_, _, _, _)
ScanChildren(D, node, i, old) ==
    IF i >= len(D.S, node) THEN D
    ELSE LET c == child(D.S, node, i)
             has == child_with_native_handle(D.S, c) /= NoNode
             D1 == [D EXCEPT
                      !.in_place = IF old THEN MapInsert(@, ChildId(D.S.tree[c].component), <<c, i>>)
                                   ELSE @,
                      !.native_indices = Append(@, IF has THEN D.curr_native_idx ELSE NoIdx),
                      !.curr_native_idx = IF has THEN @ + 1 ELSE @]
         IN ScanChildren(D1, node, i + 1, old)

\* One round of the loop creating new children: S1 is the state after the
\* push of new_child, the instance of view, the rendered child at position i.
CreateChild(D, S1, node, view, i, new_child, is_native) ==
    [D EXCEPT !.S = AppendIfNative(generate_vnode(S1, new_child), node, new_child, is_native),
              !.in_place = MapInsert(@, ChildId(view), <<new_child, len(S1, node) - 1>>),
              !.taken = @ \cup {i}]

\* The loop of update_vnode creating an instance for every new identity.
RECURSIVE CreateNew(_, _, _, _, _)
CreateNew(D, node, children, i, is_native) ==
    IF D.S.err /= NoErr \/ i >= Len(children) THEN D
    ELSE IF ~IsNewChild(D.in_place, ChildId(children[i + 1]))
         THEN CreateNew(D, node, children, i + 1, is_native)
    ELSE CreateNew(
           CreateChild(D, Push(D.S, node, VNodeComponent(children[i + 1], node)), node,
                       children[i + 1], i, NewId(D.S), is_native),
           node, children, i + 1, is_native)

\* Mutant: the loop swaps native_indices and forgets node.swap_children.
RECURSIVE SwapLoop_NoTreeSwap(_, _, _, _)
SwapLoop_NoTreeSwap(D, node, children_ids, i) ==
    IF D.S.err /= NoErr \/ i >= Len(children_ids) THEN D
    ELSE IF i >= len(D.S, node) THEN [D EXCEPT !.S = Fail(@, TREE_ERR)]
    ELSE LET id == children_ids[i + 1]
             old_node_id == ChildId(D.S.tree[child(D.S, node, i)].component)
         IN IF old_node_id /= id
            THEN LET swap_node == D.in_place[id][1]
                     swap_pos == D.in_place[id][2]
                 IN SwapLoop_NoTreeSwap([D EXCEPT
                                !.native_indices = SwapAt(@, i, swap_pos),
                                !.in_place[old_node_id] = <<swap_node, swap_pos>>],
                             node, children_ids, i + 1)
            ELSE SwapLoop_NoTreeSwap(D, node, children_ids, i + 1)

\* The loop of update_vnode moving the child with identity children_ids[i]
\* to position i.
RECURSIVE SwapLoop(_, _, _, _)
SwapLoop(D, node, children_ids, i) ==
    IF D.S.err /= NoErr \/ i >= Len(children_ids) THEN D
    ELSE IF i >= len(D.S, node) THEN [D EXCEPT !.S = Fail(@, TREE_ERR)]
    ELSE LET id == children_ids[i + 1]
             old_node_id == ChildId(D.S.tree[child(D.S, node, i)].component)
         IN IF old_node_id /= id
            THEN LET swap_node == D.in_place[id][1]
                     swap_pos == D.in_place[id][2]
                 IN SwapLoop([D EXCEPT
                                !.S = swap_children_tree(D.S, node, i, swap_pos),
                                !.native_indices = SwapAt(@, i, swap_pos),
                                !.in_place[old_node_id] = <<swap_node, swap_pos>>],
                             node, children_ids, i + 1)
            ELSE SwapLoop(D, node, children_ids, i + 1)

\* Mutant: the map is native_indices itself, not its inverse.
NativeIndicesMap_NotInverted(native_indices) == native_indices

\* native_indices_map: for every native index, the position it must move to.
NativeIndicesMap(native_indices) ==
    [e \in 1..Len(native_indices) |->
        IF \E i \in 1..Len(native_indices) : native_indices[i] = e - 1
        THEN (CHOOSE i \in 1..Len(native_indices) :
                 /\ native_indices[i] = e - 1
                 /\ \A j \in 1..Len(native_indices) : native_indices[j] = e - 1 => j <= i) - 1
        ELSE USIZE_MAX]

\* Mutant: no native swap is emitted.
NativeReorder_Skipped(D, node, i) == D

\* The loop of update_vnode emitting the native swaps, from slot i on.
RECURSIVE NativeReorder(_, _, _)
NativeReorder(D, node, i) ==
    IF D.S.err /= NoErr \/ i >= Len(D.map) THEN D
    ELSE IF i /= D.map[i + 1]
         THEN LET swap_pos == D.map[i + 1]
                  S1 == swap_children(D.S, D.S.tree[node].native_handle, i, swap_pos)
              IN IF S1.err /= NoErr THEN [D EXCEPT !.S = S1]
                 ELSE NativeReorder([D EXCEPT !.S = S1, !.map = SwapAt(@, i, swap_pos)], node, i)
    ELSE NativeReorder(D, node, i + 1)

\* Mutant: the native elements of the extra children are left in place.
RemoveNativeExtras_None(D, node, i, n) == D

\* The loop of update_vnode removing the native elements of the extra
\* children, from position i down to position n.
RECURSIVE RemoveNativeExtras(_, _, _, _)
RemoveNativeExtras(D, node, i, n) ==
    IF D.S.err /= NoErr \/ i < n THEN D
    ELSE IF child_with_native_handle(D.S, child(D.S, node, i)) /= NoNode
         THEN IF Len(D.map) = 0 THEN [D EXCEPT !.S = Fail(@, UNWRAP_ERR)]
              ELSE RemoveNativeExtras(
                     [D EXCEPT !.S = remove_child(@, D.S.tree[node].native_handle, D.map[Len(D.map)]),
                               !.map = SubSeq(@, 1, Len(@) - 1),
                               !.curr_native_idx = saturating_sub(@, 1)],
                     node, i - 1, n)
    ELSE RemoveNativeExtras(D, node, i - 1, n)

\* The loop of update_vnode dropping the extra children from the tree.
RECURSIVE RemoveExtras(_, _, _, _)
RemoveExtras(S, node, i, n) ==
    IF i < n THEN S ELSE RemoveExtras(remove_child_tree(S, node, i), node, i - 1, n)

\* Mutant: the renderer is not told of the new component.
update_component_NotCalled(S, node) == S

\* Renderer::update_component.
update_component(S, node) ==
    IF S.tree[node].native_handle = NoHandle THEN Fail(S, UNWRAP_ERR)
    ELSE Emit(S, [op |-> "update_component", node |-> node,
                  handle |-> S.tree[node].native_handle,
                  component |-> S.tree[node].component])

\* Mutant: dirty is cleared only when a new component was supplied.
SelfUpdate_DirtyKept(S, node, old_component) ==
    IF S.err /= NoErr THEN S
    ELSE IF node \notin DOMAIN S.tree THEN Fail(S, TREE_ERR)
    ELSE LET vnode == S.tree[node]
         IN IF old_component /= NoView /\ old_component.ty = vnode.component.ty
            THEN LET S2 == [S EXCEPT !.tree[node].native_type = native_type(vnode.component),
                                     !.tree[node].dirty = FALSE]
                 IN IF native_type(vnode.component) /= None
                    THEN update_component(S2, node) ELSE S2
            ELSE S

\* Mutant: the native self-update does not compare the component types.
SelfUpdate_TypeUnchecked(S, node, old_component) ==
    IF S.err /= NoErr THEN S
    ELSE IF node \notin DOMAIN S.tree THEN Fail(S, TREE_ERR)
    ELSE LET vnode == S.tree[node]
             S1 == IF old_component /= NoView
                   THEN LET S2 == [S EXCEPT !.tree[node].native_type = native_type(vnode.component)]
                        IN IF native_type(vnode.component) /= None
                           THEN update_component(S2, node) ELSE S2
                   ELSE S
         IN IF S1.err /= NoErr THEN S1 ELSE [S1 EXCEPT !.tree[node].dirty = FALSE]

\* The end of update_vnode: the native self-update, then dirty is cleared.
SelfUpdate(S, node, old_component) ==
    IF S.err /= NoErr THEN S
    ELSE IF node \notin DOMAIN S.tree THEN Fail(S, TREE_ERR)
    ELSE LET vnode == S.tree[node]
             S1 == IF old_component /= NoView /\ old_component.ty = vnode.component.ty
                   THEN LET S2 == [S EXCEPT !.tree[node].native_type = native_type(vnode.component)]
                        IN IF native_type(vnode.component) /= None
                           THEN update_component(S2, node) ELSE S2
                   ELSE S
         IN IF S1.err /= NoErr THEN S1 ELSE [S1 EXCEPT !.tree[node].dirty = FALSE]

native_insert_child(S, parent, c, pos) ==
    IF S.err /= NoErr THEN S
    ELSE LET native_child == child_with_native_handle(S, c) IN
         IF native_child = NoNode THEN S
         ELSE IF PairErr(S, parent, native_child) /= NoErr THEN PairFail(S, parent, native_child)
         ELSE insert_child(S, S.tree[parent].native_handle, pos, S.tree[native_child].native_handle)

RECURSIVE update_vnode(_, _, _)
RECURSIVE native_update_vnode(_, _, _, _, _, _)
RECURSIVE UpdateChildren(_, _, _, _, _, _, _)
RECURSIVE Diff(_, _, _, _, _)

\* Mutant: a child that gained a native descendant is not inserted.
NativeChildUpdated_NoInsert(S, is_native, native_pos, parent, c, old_native_child) ==
    [S |-> S, native_pos |-> native_pos]

\* native_update_vnode after its update_vnode call: S is the state after the
\* call, old_native_child the native descendant of c before it.  The result
\* is the state and native_pos after the match.
NativeChildUpdated(S, is_native, native_pos, parent, c, old_native_child) ==
    LET new_native_child == IF is_native THEN child_with_native_handle(S, c) ELSE NoNode
    IN IF S.err /= NoErr THEN [S |-> S, native_pos |-> native_pos]
       ELSE IF c \notin DOMAIN S.tree \/ parent \notin DOMAIN S.tree
            THEN [S |-> Fail(S, TREE_ERR), native_pos |-> native_pos]
       ELSE IF old_native_child /= NoNode /\ new_native_child /= NoNode
            THEN [S |-> IF PairErr(S, parent, new_native_child) /= NoErr
                        THEN PairFail(S, parent, new_native_child)
                        ELSE replace_child(S, S.tree[parent].native_handle, native_pos,
                                           S.tree[new_native_child].native_handle),
                  native_pos |-> saturating_sub(native_pos, 1)]
       ELSE IF old_native_child /= NoNode
            THEN [S |-> remove_child(S, S.tree[parent].native_handle, native_pos),
                  native_pos |-> saturating_sub(native_pos, 1)]
       ELSE IF new_native_child /= NoNode
            THEN [S |-> native_insert_child(S, parent, new_native_child, native_pos),
                  native_pos |-> native_pos]
       ELSE [S |-> S, native_pos |-> native_pos]

\* The result is the state and native_pos after the call.
native_update_vnode(S, is_native, native_pos, new_component, parent, c) ==
    IF S.err /= NoErr THEN [S |-> S, native_pos |-> native_pos]
    ELSE IF c \notin DOMAIN S.tree THEN [S |-> Fail(S, TREE_ERR), native_pos |-> native_pos]
    ELSE NativeChildUpdated(update_vnode(S, new_component, c), is_native, native_pos, parent, c,
                            IF is_native THEN child_with_native_handle(S, c) ELSE NoNode)

\* The loop over the retained children after one native_update_vnode call: R
\* is its result.
ChildUpdated(R, node, children, taken, snap, i) ==
    IF R.S.err /= NoErr THEN R.S
    ELSE IF node \notin DOMAIN R.S.tree THEN Fail(R.S, TREE_ERR)
    ELSE UpdateChildren(R.S, node, children, taken, snap, i - 1, R.native_pos)

\* Mutant: the children created in the diff are updated like the retained
\* ones.
UpdateChildren_NewToo(S, node, children, taken, snap, i, curr_native_idx) ==
    IF S.err /= NoErr \/ i < 0 THEN S
    ELSE ChildUpdated(
           native_update_vnode(S, S.tree[node].native_handle /= NoHandle, curr_native_idx,
                               children[i + 1], node, snap[i + 1]),
           node, children, taken, snap, i)

\* The loop of update_vnode over the retained children, from the last to the
\* first: snap is node.iter_mut(tree), i the position, and the result the
\* state after the loop.
UpdateChildren(S, node, children, taken, snap, i, curr_native_idx) ==
    IF S.err /= NoErr \/ i < 0 THEN S
    ELSE IF i \notin taken
         THEN ChildUpdated(
                native_update_vnode(S, S.tree[node].native_handle /= NoHandle, curr_native_idx,
                                    children[i + 1], node, snap[i + 1]),
                node, children, taken, snap, i)
         ELSE UpdateChildren(S, node, children, taken, snap, i - 1,
                             IF /\ S.tree[node].native_handle /= NoHandle
                                /\ child_with_native_handle(S, snap[i + 1]) /= NoNode
                             THEN saturating_sub(curr_native_idx, 1) ELSE curr_native_idx)

\* Mutant: the instance is updated and its dirty flag cleared before the
\* retained children are updated.
DiffUpdate_SelfFirst(S, D, node, children, old_component) ==
    IF Len(children) /= len(S, node) THEN Fail(S, ASSERT_LEN_ERR)
    ELSE UpdateChildren(SelfUpdate(S, node, old_component), node, children, D.taken,
                        S.tree[node].children, Len(children) - 1,
                        saturating_sub(D.curr_native_idx, 1))

\* update_vnode from the removal of the extra children from the tree on: S is
\* the state after it, D the locals.
DiffUpdate(S, D, node, children, old_component) ==
    IF Len(children) /= len(S, node) THEN Fail(S, ASSERT_LEN_ERR)
    ELSE SelfUpdate(
           UpdateChildren(S, node, children, D.taken, S.tree[node].children,
                          Len(children) - 1, saturating_sub(D.curr_native_idx, 1)),
           node, old_component)

\* update_vnode from the native reorder and removal on: D holds the locals
\* after them.
DiffRemove(D, node, children, old_component) ==
    IF D.S.err /= NoErr THEN D.S
    ELSE DiffUpdate(RemoveExtras(D.S, node, len(D.S, node) - 1, Len(children)), D, node,
                    children, old_component)

\* update_vnode after the native reorder: D holds the locals after it.
DiffRemoveNative(D, node, children, old_component) ==
    DiffRemove(RemoveNativeExtras(D, node, len(D.S, node) - 1, Len(children)), node, children,
               old_component)

\* update_vnode after the swap loop: D holds the locals after it.
DiffReorder(D, node, children, old_component, is_native) ==
    IF is_native
    THEN DiffRemoveNative(
           NativeReorder([D EXCEPT !.map = NativeIndicesMap(
                                      SelectSeq(D.native_indices, LAMBDA x : x /= NoIdx))],
                         node, 0),
           node, children, old_component)
    ELSE DiffRemove(D, node, children, old_component)

\* update_vnode after the creation of the new children: D holds the locals
\* after it.
DiffSwap(D, node, children, old_component, is_native, vnode_children_len) ==
    IF D.S.err /= NoErr THEN D.S
    ELSE DiffReorder(
           SwapLoop(ScanChildren(D, node, vnode_children_len, FALSE), node,
                    [i \in 1..Len(children) |-> ChildId(children[i])], 0),
           node, children, old_component, is_native)

\* update_vnode after the scan of the old children: D holds the locals after
\* it.
DiffCreate(D, node, children, old_component, is_native, vnode_children_len) ==
    IF Cardinality(DOMAIN D.in_place) /= vnode_children_len
    THEN Fail(D.S, DYNAMIC_CHILDREN_ERR)
    ELSE IF HasDuplicates([i \in 1..Len(children) |-> ChildId(children[i])])
    THEN Fail(D.S, DYNAMIC_CHILDREN_ERR)
    ELSE DiffSwap(CreateNew(D, node, children, 0, is_native), node, children, old_component,
                  is_native, vnode_children_len)

\* update_vnode from the child diff on: S is the state after render and the
\* native-identity propagation.
Diff(S, node, children, old_component, is_native) ==
    IF \E i \in 1..len(S, node) : WalkPanics(S, child(S, node, i - 1))
    THEN Fail(S, NON_NATIVE_CHILDREN_ERR)
    ELSE DiffCreate(ScanChildren([S |-> S, in_place |-> <<>>, native_indices |-> <<>>,
                                  curr_native_idx |-> 0, taken |-> {}, map |-> <<>>],
                                 node, 0, TRUE),
                    node, children, old_component, is_native, len(S, node))

\* Mutant: the instance keeps the new component when the update restarts.
RestartAt_NotRestored(P, node, old_component) ==
    [P.S EXCEPT !.tree[P.node].dirty = TRUE]

\* Mutant: the native parent is not marked dirty before the update restarts
\* at it.
RestartAt_ParentClean(P, node, old_component) ==
    [P.S EXCEPT !.tree[node].component = IF old_component /= NoView THEN old_component ELSE @]

\* The state in which the update restarts at the native parent P.node: the
\* parent is dirty and node has its old component back.
RestartAt(P, node, old_component) ==
    [P.S EXCEPT !.tree[P.node].dirty = TRUE,
                !.tree[node].component = IF old_component /= NoView THEN old_component ELSE @]

\* update_vnode of a non-native instance whose child changed identity: P is
\* the result of propogate_update_to_native_parent.
UpdatePropagated(P, node, children, old_component) ==
    IF P.node = NoNode THEN Fail(P.S, NATIVE_PARENT_ERR)
    ELSE IF ~P.S.tree[P.node].dirty
    THEN update_vnode(RestartAt(P, node, old_component), NoView, P.node)
    ELSE Diff(P.S, node, children, old_component, FALSE)

\* update_vnode after render: S is the state after the render call, children
\* the rendered views.
UpdateRendered(S, node, children, old_component) ==
    IF S.tree[node].native_handle = NoHandle /\ (len(S, node) = 0 \/ Len(children) = 0)
    THEN Fail(S, TREE_ERR)
    ELSE IF \/ S.tree[node].native_handle /= NoHandle
            \/ ChildId(S.tree[child(S, node, 0)].component) = ChildId(children[1])
    THEN Diff(S, node, children, old_component, S.tree[node].native_handle /= NoHandle)
    ELSE UpdatePropagated(propogate_update_to_native_parent(S, node), node, children,
                          old_component)

\* Mutant: dirty is not set before the render.
SwapComponent_DirtyNotSet(S, new_component, node) ==
    [S EXCEPT !.tree[node].component = IF new_component /= NoView THEN new_component ELSE @]

\* The instance with dirty set and the new component, if one is supplied,
\* swapped in.
SwapComponent(S, new_component, node) ==
    [S EXCEPT !.tree[node].dirty = TRUE,
              !.tree[node].component = IF new_component /= NoView THEN new_component ELSE @]

\* Updates the given node so that its children and corresponding native
\* elements match the current properties and state of its component.
update_vnode(S, new_component, node) ==
    IF S.err /= NoErr THEN S
    ELSE IF node \notin DOMAIN S.tree THEN Fail(S, TREE_ERR)
    ELSE IF (S.tree[node].native_handle /= NoHandle) /= (S.tree[node].native_type /= None)
    THEN Fail(S, ASSERT_NATIVE_ERR)
    ELSE IF ShouldSkip(IF new_component /= NoView THEN new_component.upd ELSE FALSE,
                       S.tree[node].dirty)
    THEN S
    ELSE UpdateRendered(Render(SwapComponent(S, new_component, node), node), node,
                        RenderChildren(SwapComponent(S, new_component, node).tree[node]),
                        IF new_component /= NoView THEN S.tree[node].component ELSE NoView)

\* Gen { gen: 1 } of Root::new: the counter of a new root.
FirstGen == 1

\* Gen { gen: 0 } of Root::new: the generation given to generate_vnode.
MountGen == 0

\* vdom.gen.inc().
inc(S) == IF S.err /= NoErr THEN S ELSE [S EXCEPT !.vdom_gen = @ + 1]

\* Root::new up to the end of generate_vnode: the root instance over the
\* external handle, whose element has the children existing, and child pushed
\* under it and generated.
RootGenerated(c, native_parent, existing) ==
    generate_vnode(
      Push([tree |-> (0 :> [VNodeComponent(native_parent, NoNode) EXCEPT
                               !.native_type = native_type(native_parent),
                               !.native_handle = 0]),
            next |-> 1, dom |-> (0 :> existing), log |-> <<>>, err |-> NoErr,
            gen |-> MountGen, vdom_gen |-> FirstGen],
           0, VNodeComponent(c, 0)),
      1)

\* Mutant: the generated child is not appended to the root handle.
RootNew_NoAppend(c, native_parent) ==
    IF native_type(native_parent) = None
    THEN [tree |-> <<>>, next |-> 0, dom |-> <<>>, log |-> <<>>, err |-> ROOT_NATIVE_ERR,
          gen |-> MountGen, vdom_gen |-> FirstGen]
    ELSE inc(RootGenerated(c, native_parent, <<>>))

\* Root::new on a native_handle whose element has the children existing: the
\* tree rooted at the external handle, with child generated and appended, and
\* the counter incremented.
RootNewOn(c, native_parent, existing) ==
    IF native_type(native_parent) = None
    THEN [tree |-> <<>>, next |-> 0, dom |-> <<>>, log |-> <<>>, err |-> ROOT_NATIVE_ERR,
          gen |-> MountGen, vdom_gen |-> FirstGen]
    ELSE inc(native_append_child(RootGenerated(c, native_parent, existing), 0, 1))

\* Root::new on the handle of an empty element.
RootNew(c, native_parent) == RootNewOn(c, native_parent, <<>>)

\* ------------------------------------------------------------------ turns

\* The views a rendered child list is drawn from.
Cands == {Text(1, TRUE), Text(2, FALSE),
          Wrap(TRUE, Unit), Wrap(TRUE, TextB(FALSE)), SWrap(Unit)}

KidLists == UNION {[1..n -> Cands] : n \in 0..MaxLen}

\* The children a stateful wrapper renders.
WrapKids == {Unit, TextB(FALSE), Wrap(TRUE, Unit), Wrap(TRUE, TextB(FALSE))}

Apps == {SDiv(l) : l \in KidLists} \cup {SWrap(c) : c \in WrapKids}

\* The values a state setter may write into the cell of a component.
CellValues(component) ==
    IF component.ty = "div" THEN KidLists ELSE {<<c>> : c \in WrapKids}

\* ------------------------------------------------------------------ WebScheduler

\* A scheduler state T is a record
\*   queued_fns : the queue of tasks; a task is its number in enqueue order
\*                and the number of tasks it schedules when it runs,
\*   posted     : timeout messages posted and not yet delivered,
\*   borrowed   : queued_fns is mutably borrowed,
\*   ids        : tasks enqueued so far,
\*   turn       : messages delivered so far,
\*   ran        : the tasks run, each with the turn it ran in,
\*   err        : the panic message once a call has failed.

\* WebScheduler::new: an empty queue.
WebSchedulerNew ==
    [queued_fns |-> <<>>, posted |-> 0, borrowed |-> FALSE, ids |-> 0, turn |-> 0,
     ran |-> <<>>, err |-> NoErr]

\* Shared::exec_mut: the mutable borrow of the queue.
exec_mut(T) == IF T.borrowed THEN [T EXCEPT !.err = BORROW_ERR] ELSE [T EXCEPT !.borrowed = TRUE]

\* The end of the closure passed to exec_mut.
release(T) == [T EXCEPT !.borrowed = FALSE]

\* Mutant: the task goes to the front of the queue.
push_back_Front(queue, f) == <<f>> \o queue

\* VecDeque::push_back.
push_back(queue, f) == Append(queue, f)

\* Mutant: the task is taken from the back of the queue.
pop_front_Back(queue) ==
    IF queue = <<>> THEN [f |-> <<>>, queue |-> queue]
    ELSE [f |-> <<queue[Len(queue)]>>, queue |-> SubSeq(queue, 1, Len(queue) - 1)]

\* VecDeque::pop_front: the task, if any, and the queue left.
pop_front(queue) ==
    IF queue = <<>> THEN [f |-> <<>>, queue |-> queue]
    ELSE [f |-> <<Head(queue)>>, queue |-> Tail(queue)]

\* Mutant: the task is queued and no message is posted.
Enqueued_NoPost(B, spawns) ==
    IF B.err /= NoErr THEN B
    ELSE [release(B) EXCEPT !.queued_fns = push_back(@, [id |-> B.ids + 1, spawns |-> spawns]),
                            !.ids = @ + 1]

\* The push of schedule_on_ui_thread inside exec_mut, and the post_message
\* that follows it.
Enqueued(B, spawns) ==
    IF B.err /= NoErr THEN B
    ELSE [release(B) EXCEPT !.queued_fns = push_back(@, [id |-> B.ids + 1, spawns |-> spawns]),
                            !.ids = @ + 1,
                            !.posted = @ + 1]

\* WebScheduler::schedule_on_ui_thread of a task that schedules spawns tasks.
schedule_on_ui_thread(T, spawns) ==
    IF T.err /= NoErr THEN T ELSE Enqueued(exec_mut(T), spawns)

\* The body of a task: it schedules count more tasks, each of which schedules
\* spawns tasks.
RECURSIVE RunBody(_, _, _)
RunBody(T, count, spawns) ==
    IF count = 0 THEN T
    ELSE RunBody(schedule_on_ui_thread(T, spawns), count - 1, spawns)

\* f(): the task runs to completion.
RunTask(T, f) ==
    RunBody([T EXCEPT !.ran = Append(@, [id |-> f.id, turn |-> T.turn])],
            f.spawns, f.spawns - 1)

\* Mutant: the popped task is called inside the closure of exec_mut.
Popped_RunsBorrowed(B, p) ==
    IF B.err /= NoErr THEN B
    ELSE IF p.f = <<>> THEN release([B EXCEPT !.queued_fns = p.queue])
    ELSE release(RunTask([B EXCEPT !.queued_fns = p.queue], p.f[1]))

\* The listener after queue.pop_front() gave p: the borrow ends, then the
\* task, if there is one, is called.
Popped(B, p) ==
    IF B.err /= NoErr THEN B
    ELSE IF p.f = <<>> THEN release([B EXCEPT !.queued_fns = p.queue])
    ELSE RunTask(release([B EXCEPT !.queued_fns = p.queue]), p.f[1])

\* The "message" listener of WebScheduler::new on a timeout message.
OnMessage(T) ==
    Popped(exec_mut([T EXCEPT !.posted = @ - 1, !.turn = @ + 1]), pop_front(T.queued_fns))

Begin(kind, node) == <<[op |-> "turn", kind |-> kind, node |-> node]>>

\* The state a turn begins in: the update is given the root's generation.
Here == [tree |-> tree, next |-> next, dom |-> dom, log |-> log, err |-> err,
         gen |-> gen, vdom_gen |-> gen]

Becomes(S) == /\ tree' = S.tree
              /\ next' = S.next
              /\ dom' = S.dom
              /\ log' = S.log
              /\ err' = S.err
              /\ sched' = sched
              /\ offset' = offset

\* The state Root::new leaves.
Mounted(S) == /\ tree = S.tree
              /\ next = S.next
              /\ dom = S.dom
              /\ log = Begin("mount", 0) \o S.log
              /\ err = S.err
              /\ gen = S.vdom_gen
              /\ sched = WebSchedulerNew
              /\ offset = 0

Init == \E app \in Apps : Mounted(RootNew(app, RootView(app)))

\* The task a state setter schedules: writes the cell, marks the instance
\* dirty and updates it.
SetStateTask(S, node, value) ==
    update_vnode([S EXCEPT !.tree[node].state[S.tree[node].component.hook] = value,
                           !.tree[node].dirty = TRUE,
                           !.log = Begin("set_state", node)],
                 NoView, node)

SetState == /\ err = NoErr
            /\ gen < FirstGen + 1 + MaxTurns
            /\ gen' = gen + 1
            /\ \E node \in DOMAIN tree :
                 /\ tree[node].component.hook /= 0
                 /\ tree[node].component.hook \in DOMAIN tree[node].state
                 /\ \E value \in CellValues(tree[node].component) :
                      Becomes(SetStateTask(Here, node, value))

\* The task an event dispatch schedules: updates the instance as it is.
DispatchTask(S, node) == update_vnode([S EXCEPT !.log = Begin("dispatch", node)], NoView, node)

Dispatch == /\ err = NoErr
            /\ gen < FirstGen + 1 + MaxTurns
            /\ gen' = gen + 1
            /\ \E node \in DOMAIN tree : Becomes(DispatchTask(Here, node))

Next == SetState \/ Dispatch

Spec == Init /\ [][Next]_vars

\* ------------------------------------------------------------------ properties

\* The handles of the nearest native descendants of node's children from
\* position i on, in child-list order.
RECURSIVE NativeChildrenFrom(_, _, _)
NativeChildrenFrom(S, node, i) ==
    IF i >= len(S, node) THEN <<>>
    ELSE LET n == child_with_native_handle(S, child(S, node, i)) IN
         (IF n < 0 THEN <<>> ELSE <<S.tree[n].native_handle>>)
            \o NativeChildrenFrom(S, node, i + 1)

Completed == err = NoErr

\* C1: after Root::new and after every completed top-level update_vnode, the
\* renderer-side child list of every native instance equals, position by
\* position, the nearest native descendants of its tree children in order.
C1_NativeOrder ==
    Completed =>
      \A n \in DOMAIN tree :
         tree[n].native_handle /= NoHandle =>
            dom[tree[n].native_handle] = NativeChildrenFrom(Here, n, 0)

\* The identities of node's children, in child-list order.
ChildIds(S, node) == [i \in 1..len(S, node) |-> ChildId(S.tree[child(S, node, i - 1)].component)]

\* The identities of the views node's component renders as it is now.
RenderedIds(S, node) ==
    [i \in 1..Len(RenderChildren(S.tree[node])) |-> ChildId(RenderChildren(S.tree[node])[i])]

IsNative(S, node) == S.tree[node].native_handle /= NoHandle

\* The turn that led to the current state, and the instance it was run on.
TurnKind == log[1].kind
TurnNode == log[1].node
AfterUpdate == TurnKind \in {"set_state", "dispatch"}

Logged(op) == \E i \in 1..Len(log) : log[i].op = op
Rendered(node) == \E i \in 1..Len(log) : log[i].op = "render" /\ log[i].node = node

\* C2: after a top-level update_vnode returns, no instance is dirty.
C2_NoDirty == (Completed /\ AfterUpdate) => \A n \in DOMAIN tree : ~tree[n].dirty

\* The restart at the native parent was taken: a wrapper was rendered first, and
\* its native ancestor after it.
Restarted ==
    /\ Len(log) >= 3
    /\ log[2].op = "render" /\ log[3].op = "render"
    /\ log[3].node = tree[log[2].node].parent

C2_Witness == Completed /\ TurnKind = "set_state" /\ Restarted

\* C3: native_handle is Some iff native_type is Some for every instance, and
\* the assertion at the top of update_vnode never fails.
C3_HandleIffType ==
    /\ err /= ASSERT_NATIVE_ERR
    /\ \A n \in DOMAIN tree : (tree[n].native_handle /= NoHandle) <=> (tree[n].native_type /= None)

C3_Witness == Completed /\ AfterUpdate /\ Logged("update_component")

\* Two positions of seq hold the same value.
Dup(seq) == \E i, j \in DOMAIN seq : i /= j /\ seq[i] = seq[j]

\* C4: outside update_vnode no two siblings share an identity.
C4_UniqueSiblings ==
    Completed => \A n \in DOMAIN tree : ~Dup(ChildIds(Here, n))

\* C5 as stated: every non-native instance has exactly one child.
C5_OneChild ==
    Completed => \A n \in DOMAIN tree : ~IsNative(Here, n) => len(Here, n) = 1

\* C5 amended: every non-native instance has exactly one child, except the
\* instance of a unit view, which has none.
C5_OneChildUnlessUnit ==
    Completed => \A n \in DOMAIN tree :
        ~IsNative(Here, n) =>
            len(Here, n) = (IF tree[n].component.ty = "unit" THEN 0 ELSE 1)

C5_Witness ==
    /\ Completed /\ AfterUpdate /\ Logged("tree_remove")
    /\ \E n \in DOMAIN tree : ~IsNative(Here, n) /\ Rendered(n) /\ len(Here, n) = 1

\* The new components update_vnode may be handed that report updated() = false.
SkipViews == {NoView, Unit, Text(2, FALSE), TextB(FALSE), Wrap(FALSE, Unit),
              SWrap(TextB(FALSE)), SDiv(<<Text(2, FALSE)>>)}

\* C6: update_vnode on an instance that is not dirty, with no new component or
\* one that reports updated() = false, changes nothing: no render, no renderer
\* call, the tree as it was.
C6_SkipChangesNothing ==
    Completed =>
      \A n \in DOMAIN tree : \A v \in SkipViews :
          ~tree[n].dirty => update_vnode(Here, v, n) = Here

C6_Witness == Completed /\ TurnKind = "dispatch" /\ Len(log) = 1 /\ len(Here, TurnNode) > 0

\* C7: an instance that was re-rendered has, after the update, exactly the
\* children its render returned, in that order.
C7_ChildrenMatchRender ==
    (Completed /\ AfterUpdate) =>
      \A n \in DOMAIN tree : Rendered(n) => ChildIds(Here, n) = RenderedIds(Here, n)

C7_Witness ==
    /\ Completed /\ TurnKind = "set_state"
    /\ \E i, j, k \in 1..Len(log) :
         /\ log[i].op = "push" /\ log[i].parent = TurnNode
         /\ log[j].op = "tree_swap" /\ log[j].node = TurnNode
         /\ log[k].op = "tree_remove" /\ log[k].node = TurnNode

\* The state a step leads to.
There == [tree |-> tree', next |-> next', dom |-> dom', log |-> log', err |-> err',
          gen |-> gen', vdom_gen |-> gen']

Range(f) == {f[i] : i \in DOMAIN f}

PosOf(seq, x) == CHOOSE i \in 1..Len(seq) : seq[i] = x

\* The instances present before and after the step that the step re-rendered.
DiffedInStep ==
    {n \in DOMAIN tree \cap DOMAIN tree' :
        \E i \in 1..Len(log') : log'[i].op = "render" /\ log'[i].node = n}

\* An old child whose identity is rendered again is the same instance after the
\* step, at the position of its identity, with its handle and its state cells
\* (the cell a setter wrote in this step aside); any other old child is gone
\* with its whole subtree.
C8_OldChildren ==
    \A n \in DiffedInStep : \A i \in 1..Len(tree[n].children) :
        LET c == tree[n].children[i]
            id == ChildId(tree[c].component)
            new_ids == ChildIds(There, n)
        IN IF id \in Range(new_ids)
           THEN /\ c \in DOMAIN tree'
                /\ tree'[n].children[PosOf(new_ids, id)] = c
                /\ tree'[c].native_handle = tree[c].native_handle
                /\ DOMAIN tree[c].state \subseteq DOMAIN tree'[c].state
                /\ c /= log'[1].node => tree'[c].state = tree[c].state
           ELSE Subtree(Here, c) \cap DOMAIN tree' = {}

NewChildrenInStep ==
    {c \in DOMAIN tree' \ DOMAIN tree : tree'[c].parent \in DiffedInStep}

\* C8 as stated: retained children are the same instances, removed children
\* are gone with their subtrees, and a new child is an instance with empty
\* state.
C8_ChildrenByIdentity ==
    [][err' = NoErr =>
         /\ C8_OldChildren
         /\ \A c \in NewChildrenInStep : tree'[c].state = <<>>]_vars

\* C8 amended: a new child is a fresh instance whose state holds only what its
\* first render inserted.
C8_ChildrenByIdentityFirstRender ==
    [][err' = NoErr =>
         /\ C8_OldChildren
         /\ \A c \in NewChildrenInStep :
               /\ c >= next
               /\ tree'[c].state = RenderState(VNodeComponent(tree'[c].component, tree'[c].parent))]_vars

\* A completed update that kept one child at a new position, removed one and
\* created one.
PushedUnder(node, parent) ==
    \E i \in 1..Len(log) : log[i].op = "push" /\ log[i].node = node /\ log[i].parent = parent

\* A completed update that kept one child, removed one and created one whose
\* first render filled a state cell.
C8_Witness ==
    /\ Completed /\ TurnKind = "set_state"
    /\ \E i \in 1..Len(log) : log[i].op = "tree_remove" /\ log[i].node = TurnNode
    /\ \E c1, c2 \in Range(tree[TurnNode].children) :
          /\ ~PushedUnder(c1, TurnNode)
          /\ PushedUnder(c2, TurnNode)
          /\ tree[c2].state /= <<>>

\* C9: a native instance updated with duplicate identities among its children
\* or in its rendered list aborts with DYNAMIC_CHILDREN_ERR right after its
\* render: nothing is created, swapped or sent to the renderer before.
C9_DuplicatesAbort ==
    [][LET t == log'[1].node IN
       /\ (/\ log'[1].kind = "set_state"
           /\ IsNative(Here, t)
           /\ \/ Dup(ChildIds(Here, t))
              \/ Dup(RenderedIds(There, t)))
          => /\ err' = DYNAMIC_CHILDREN_ERR
             /\ Len(log') = 3
             /\ log'[2].op = "render" /\ log'[2].node = t
             /\ log'[3] = [op |-> "panic", msg |-> DYNAMIC_CHILDREN_ERR]
             /\ dom' = dom /\ next' = next
             /\ tree' = [tree EXCEPT ![t].state = tree'[t].state, ![t].dirty = TRUE]
       /\ err' = DYNAMIC_CHILDREN_ERR
          => /\ Len(log') >= 3
             /\ log'[Len(log')].op = "panic"
             /\ log'[Len(log') - 1].op = "render"]_vars

C9_Witness == err = DYNAMIC_CHILDREN_ERR /\ TurnKind = "set_state"

\* ------------------------------------------------------------------ permutations
\* A native instance with keyed native children whose state setter re-renders
\* them in another order.

Perms(n) == {f \in [1..n -> 1..n] : \A i, j \in 1..n : f[i] = f[j] => i = j}

KeyedTexts(f, u) == [i \in 1..Len(f) |-> Text(f[i], u)]

InitPerm == \E n \in 1..PermN :
              Mounted(RootNew(SDiv(KeyedTexts([i \in 1..n |-> i], FALSE)),
                              RootView(SDiv(KeyedTexts([i \in 1..n |-> i], FALSE)))))

Permute == /\ err = NoErr
           /\ gen < FirstGen + 1 + MaxTurns
           /\ gen' = gen + 1
           /\ \E f \in Perms(len(Here, 1)) : \E u \in BOOLEAN :
                 Becomes(SetStateTask(Here, 1, KeyedTexts(f, u)))

NextPerm == Permute

SpecPerm == InitPerm /\ [][NextPerm]_vars

CountOps(l, op) == Cardinality({i \in 1..Len(l) : l[i].op = op})

\* The handle of the child of node that has key k.
HandleOfKey(S, node, k) ==
    LET c == CHOOSE c \in Range(S.tree[node].children) : S.tree[c].component.key = k
    IN S.tree[c].native_handle

\* C10: re-rendering N keyed native children in another order emits at most N
\* swap_children calls (two for the rotation [a,b,c] -> [c,a,b]), no
\* create_component, append_child, insert_child or remove_child, and leaves
\* the native children in the new order.
C10_PermutationSwaps ==
    [][LET new == RenderChildren(tree'[1])
           old == RenderChildren(tree[1])
       IN /\ err' = NoErr
          /\ CountOps(log', "swap_children") <= Len(new)
          /\ (Len(new) = 3 /\ new[1].key = old[3].key /\ new[2].key = old[1].key
                /\ new[3].key = old[2].key)
               => CountOps(log', "swap_children") = 2
          /\ \A i \in 1..Len(log') :
                log'[i].op \notin {"create_component", "append_child", "insert_child",
                                   "remove_child", "push", "tree_remove"}
          /\ dom'[1] = [i \in 1..Len(new) |-> HandleOfKey(Here, 1, new[i].key)]]_vars

C10_Witness ==
    /\ Completed /\ TurnKind = "set_state"
    /\ CountOps(log, "swap_children") = 2
    /\ len(Here, 1) = 3

\* ------------------------------------------------------------------ keyed lists
\* A native instance whose state setter re-renders any list of distinct keyed
\* native children.

KeyLists == {f \in UNION {[1..n -> 1..KeyN] : n \in 0..KeyN} :
                \A i, j \in DOMAIN f : f[i] = f[j] => i = j}

InitKeyed == \E f \in KeyLists :
               Mounted(RootNew(SDiv(KeyedTexts(f, FALSE)), RootView(SDiv(KeyedTexts(f, FALSE)))))

Rekey == /\ err = NoErr
         /\ gen < FirstGen + 1 + MaxTurns
         /\ gen' = gen + 1
         /\ \E f \in KeyLists : \E u \in BOOLEAN :
               Becomes(SetStateTask(Here, 1, KeyedTexts(f, u)))

NextKeyed == Rekey

SpecKeyed == InitKeyed /\ [][NextKeyed]_vars

\* The renderer calls that address a parent handle.
ParentOps == {"append_child", "insert_child", "swap_children", "replace_child", "remove_child"}

\* The renderer calls of log l made against parent handle h, in order.
ParentCalls(l, h) == SelectSeq(l, LAMBDA e : e.op \in ParentOps /\ e.parent = h)

\* The keys of the rendered children of the keyed instance before and after
\* the step.
OldKeys == [i \in 1..Len(RenderChildren(tree[1])) |-> RenderChildren(tree[1])[i].key]
NewKeys == [i \in 1..Len(RenderChildren(tree'[1])) |-> RenderChildren(tree'[1])[i].key]

InsertsMiddle ==
    /\ Len(OldKeys) = 2 /\ Len(NewKeys) = 3
    /\ NewKeys[1] = OldKeys[1] /\ NewKeys[3] = OldKeys[2]

Positions(seq, set) == {i \in 1..Len(seq) : seq[i] \in set}

\* The old children of the keyed instance that are not rendered again.
GoneChildren == {c \in Range(tree[1].children) : tree[c].component.key \notin Range(NewKeys)}

\* C13: when the new child list is shorter than the current one, the native
\* node of every child beyond the new length is removed through the renderer,
\* from the highest index downward, each index naming the parent's last child
\* at that moment; the remaining native children keep their handles and end
\* in the rendered order, and the removed instances are no longer in the tree.
C13_TruncateRemoves ==
    [][Len(NewKeys) < Len(OldKeys)
        => LET calls == ParentCalls(log', 1)
               removes == Positions([i \in 1..Len(calls) |-> calls[i].op], {"remove_child"})
               before == CountOps(calls, "append_child") + CountOps(calls, "swap_children")
               full == Len(dom[1]) + CountOps(calls, "append_child")
           IN /\ err' = NoErr
              /\ removes = (before + 1)..(before + full - Len(NewKeys))
              /\ \A i \in 1..before : calls[i].op \in {"append_child", "swap_children"}
              /\ \A i \in removes : calls[i].index = full - (i - before)
              /\ dom'[1] = [i \in 1..Len(NewKeys) |-> HandleOfKey(There, 1, NewKeys[i])]
              /\ \A i \in 1..Len(NewKeys) :
                    NewKeys[i] \in Range(OldKeys)
                       => HandleOfKey(There, 1, NewKeys[i]) = HandleOfKey(Here, 1, NewKeys[i])
              /\ \A c \in GoneChildren :
                    /\ c \notin DOMAIN tree'
                    /\ tree[c].native_handle \notin DOMAIN dom'
                    /\ tree[c].native_handle \notin Range(dom'[1])]_vars

\* A completed update that kept one of three children, not the first one.
C13_Witness ==
    /\ Completed /\ TurnKind = "set_state"
    /\ len(Here, 1) = 1
    /\ CountOps(log, "remove_child") = 2 /\ CountOps(log, "tree_remove") = 2
    /\ Logged("swap_children")

\* ------------------------------------------------------------------ native slots

\* A child of a native instance has a native descendant.
HasNative(S, c) == child_with_native_handle(S, c) >= 0

\* The handle of the nearest native descendant of c.
NativeHandleOf(S, c) == S.tree[child_with_native_handle(S, c)].native_handle

\* The native slot of child c within p: the number of children of p before c
\* that have a native descendant.
Slot(S, p, c) ==
    Cardinality({i \in 1..len(S, p) :
                    /\ i < PosOf(S.tree[p].children, c)
                    /\ HasNative(S, S.tree[p].children[i])})

\* The view has a native node: it is native, or the child it renders has one.
RECURSIVE ViewHasNative(_)
ViewHasNative(v) ==
    IF native_type(v) /= None THEN TRUE
    ELSE IF v.ty = "unit" THEN FALSE
    ELSE ViewHasNative(v.kids[1])

\* The replace_child calls of log l.
Replaces(l) == SelectSeq(l, LAMBDA e : e.op = "replace_child")

\* The step is a state write to the non-native wrapper t whose rendered child
\* changes identity, with a native node under the old and under the new child.
WrapperSwitches(t) ==
    /\ log'[1].kind = "set_state" /\ log'[1].node = t
    /\ ~IsNative(Here, t) /\ len(Here, t) = 1
    /\ ChildId(tree[child(Here, t, 0)].component) /= ChildId(RenderChildren(tree'[t])[1])
    /\ HasNative(Here, t)
    /\ ViewHasNative(RenderChildren(tree'[t])[1])

\* The restart: the wrapper is rendered first, its native ancestor after it.
AncestorReruns(t) ==
    /\ Len(log') >= 3
    /\ log'[2].op = "render" /\ log'[2].node = t
    /\ log'[3].op = "render" /\ log'[3].node = tree[t].parent
    /\ IsNative(Here, tree[t].parent)

\* C14 as stated: the native ancestor re-runs update_vnode and the turn emits
\* exactly one replace_child, at the wrapper's native slot, carrying the new
\* child's handle.
C14_OneReplace ==
    [][\A t \in DOMAIN tree :
          WrapperSwitches(t)
            => /\ err' = NoErr
               /\ AncestorReruns(t)
               /\ Replaces(log') =
                    <<[op |-> "replace_child", parent |-> tree[tree[t].parent].native_handle,
                       index |-> Slot(There, tree[t].parent, t),
                       child |-> NativeHandleOf(There, t)]>>]_vars

\* The views a retained child c may be updated with: those of its identity.
RetainViews(c) ==
    {v \in Cands \cup WrapKids \cup
           {Text(1, FALSE), Text(2, TRUE), TextB(TRUE), Wrap(FALSE, Unit),
            Wrap(FALSE, TextB(FALSE)), SWrap(TextB(FALSE))} :
        ChildId(v) = ChildId(tree[c].component)}

\* The events log l holds after its first k, the panic record aside.
CallsAfter(l, k) == SelectSeq(SubSeq(l, k + 1, Len(l)), LAMBDA e : e.op /= "panic")

\* C15: for a retained child c of instance n, native_update_vnode emits, after
\* the update of c, the renderer call its native descendant before and after
\* selects: none for (no, no), one removal for (yes, no), one insert_child for
\* (no, yes), at most one replace_child for (yes, yes), all against n at
\* native_pos, and none at all when n is not native.
C15_CallByNativeChange ==
    Completed =>
      \A n \in DOMAIN tree : \A c \in Range(tree[n].children) : \A v \in RetainViews(c) :
         LET S0 == [Here EXCEPT !.tree[n].dirty = TRUE, !.log = <<>>]
             pos == Slot(Here, n, c)
             U == update_vnode(S0, v, c)
             R == native_update_vnode(S0, IsNative(Here, n), pos, v, n, c)
             calls == CallsAfter(R.S.log, Len(U.log))
             h == tree[n].native_handle
         IN (U.err = NoErr /\ c \in DOMAIN U.tree /\ n \in DOMAIN U.tree)
              => /\ SubSeq(R.S.log, 1, Len(U.log)) = U.log
                 /\ IF ~IsNative(Here, n) THEN calls = <<>>
                    ELSE IF ~HasNative(S0, c) /\ ~HasNative(U, c) THEN calls = <<>>
                    ELSE IF HasNative(S0, c) /\ ~HasNative(U, c)
                    THEN calls = <<[op |-> "remove_child", parent |-> h, index |-> pos]>>
                    ELSE IF ~HasNative(S0, c) /\ HasNative(U, c)
                    THEN calls = <<[op |-> "insert_child", parent |-> h, index |-> pos,
                                    child |-> NativeHandleOf(U, c)]>>
                    ELSE calls = <<[op |-> "replace_child", parent |-> h, index |-> pos,
                                    child |-> NativeHandleOf(U, c)]>>

\* A completed update of a native instance in which one retained child lost
\* its native node and another gained one.
C15_Witness ==
    /\ Completed /\ TurnKind = "set_state" /\ IsNative(Here, TurnNode)
    /\ \E i, j \in 1..Len(log) :
          /\ log[i].op = "remove_child" /\ log[i].parent = tree[TurnNode].native_handle
          /\ log[j].op = "insert_child" /\ log[j].parent = tree[TurnNode].native_handle

\* C16: an insert_child emitted for a retained child that gained a native
\* descendant carries the child's native slot: the number of children of the
\* parent before it that have a native descendant.
C16_InsertAtSlot ==
    [][err' = NoErr =>
         \A i \in 1..Len(log') :
            log'[i].op = "insert_child" =>
               \E c \in Range(tree'[log'[i].parent].children) :
                  /\ HasNative(There, c)
                  /\ NativeHandleOf(There, c) = log'[i].child
                  /\ log'[i].index = Slot(There, log'[i].parent, c)]_vars

\* The calls native_update_vnode adds after the update of child c of n with
\* view v, and the states after the update of c and after the whole call.
Entered(n) == [Here EXCEPT !.tree[n].dirty = TRUE, !.log = <<>>]
ChildUpdate(n, c, v) == update_vnode(Entered(n), v, c)
NativeChildUpdate(n, c, v) ==
    native_update_vnode(Entered(n), IsNative(Here, n), Slot(Here, n, c), v, n, c).S

\* The update of child c of native n with view v keeps c's native node.
KeepsHandle(n, c, v) ==
    /\ IsNative(Here, n)
    /\ ChildUpdate(n, c, v).err = NoErr
    /\ c \in DOMAIN ChildUpdate(n, c, v).tree
    /\ HasNative(Here, c) /\ HasNative(ChildUpdate(n, c, v), c)
    /\ NativeHandleOf(ChildUpdate(n, c, v), c) = NativeHandleOf(Here, c)

RenderedIn(l, n) == \E i \in 1..Len(l) : l[i].op = "render" /\ l[i].node = n

\* The root can still take a turn.
TurnsLeft == gen < FirstGen + 1 + MaxTurns

\* Over the turn that ends in R, started on instance n whose state map was
\* cells when the turn began: every instance that lives on keeps its keys and
\* the values stored under them, a key it gains is its call-site key and holds
\* the initializer's value, and a render returns the stored cell.
CellsKeptOver(R, n, cells) ==
    R.err = NoErr =>
       \A m \in DOMAIN tree \cap DOMAIN R.tree :
          /\ DOMAIN tree[m].state \subseteq DOMAIN R.tree[m].state
          /\ \A k \in DOMAIN tree[m].state :
                R.tree[m].state[k] = IF m = n THEN cells[k] ELSE tree[m].state[k]
          /\ \A k \in DOMAIN R.tree[m].state \ DOMAIN tree[m].state :
                /\ k = R.tree[m].component.hook
                /\ R.tree[m].state[k] = R.tree[m].component.kids
          /\ (RenderedIn(R.log, m) /\ R.tree[m].component.hook /= 0)
                => /\ R.tree[m].component.hook \in DOMAIN R.tree[m].state
                   /\ RenderChildren(R.tree[m]) = R.tree[m].state[R.tree[m].component.hook]

\* C18: get_or_insert_with returns the cell stored under the call-site key on
\* every render and runs the initializer only on the first access, and no turn
\* removes or replaces an entry of an instance that lives on: after a setter's
\* write the render yields the written cell, and a dispatch leaves every cell
\* as it was.
C18_CellsKept ==
    (Completed /\ TurnsLeft) =>
       \A n \in DOMAIN tree :
          /\ CellsKeptOver(DispatchTask(Here, n), n, tree[n].state)
          /\ (tree[n].component.hook /= 0 /\ tree[n].component.hook \in DOMAIN tree[n].state)
                => \A value \in CellValues(tree[n].component) :
                      CellsKeptOver(SetStateTask(Here, n, value), n,
                                    [tree[n].state EXCEPT ![tree[n].component.hook] = value])

\* A state write re-rendered an instance whose cell holds a value other than
\* the one its initializer yields.
C18_Witness ==
    /\ Completed /\ TurnKind = "set_state"
    /\ Rendered(TurnNode)
    /\ tree[TurnNode].component.hook \in DOMAIN tree[TurnNode].state
    /\ tree[TurnNode].state[tree[TurnNode].component.hook] /= tree[TurnNode].component.kids

\* ------------------------------------------------------------------ scheduler turns

\* A scheduler before any root is mounted.
InitSched == /\ tree = <<>>
             /\ next = 0
             /\ dom = <<>>
             /\ log = <<>>
             /\ err = NoErr
             /\ gen = FirstGen
             /\ sched = WebSchedulerNew
             /\ offset = 0

\* A caller outside any task (an event handler, the mount) schedules a task.
Schedule == /\ sched.err = NoErr
            /\ sched.ids - Len(sched.ran) < MaxTasks
            /\ Len(sched.ran) < MaxTasks
            /\ \E spawns \in 0..MaxSpawn : sched' = schedule_on_ui_thread(sched, spawns)
            /\ UNCHANGED <<tree, next, dom, log, err, gen, offset>>

\* The window delivers one posted timeout message.
Message == /\ sched.err = NoErr
           /\ sched.posted > 0
           /\ sched' = OnMessage(sched)
           /\ UNCHANGED <<tree, next, dom, log, err, gen, offset>>

NextSched == Schedule \/ Message

SpecSched == InitSched /\ [][NextSched]_vars

\* C19: the tasks run so far are the first tasks enqueued, in the order of
\* their enqueueing.
C19_FifoOrder ==
    /\ Len(sched.ran) <= sched.ids
    /\ \A i \in 1..Len(sched.ran) : sched.ran[i].id = i

\* Tasks enqueued by running tasks and from outside, interleaved, have run
\* while others wait.
C19_Witness ==
    /\ sched.err = NoErr
    /\ Len(sched.ran) >= 3
    /\ Len(sched.queued_fns) >= 2
    /\ sched.ids > Len(sched.ran) + Len(sched.queued_fns) - 1
    /\ \E i \in 1..Len(sched.ran) : sched.ran[i].turn > 1 /\ sched.ids > i + 1

\* C20: a delivered message runs at most one task, the task was enqueued
\* before the message was delivered, every task it schedules is queued and
\* not run, and neither the message nor a call of schedule_on_ui_thread
\* fails on the borrow of the queue.
C20_OneTaskPerTurn ==
    [][/\ sched'.err = NoErr
       /\ ~sched'.borrowed
       /\ sched'.turn = sched.turn + 1 =>
             /\ Len(sched'.ran) <= Len(sched.ran) + 1
             /\ \A i \in (Len(sched.ran) + 1)..Len(sched'.ran) :
                   /\ sched'.ran[i].id <= sched.ids
                   /\ sched'.ran[i].turn = sched'.turn
             /\ \A i \in 1..Len(sched'.queued_fns) :
                   sched'.queued_fns[i].id > sched.ids =>
                      \A j \in 1..Len(sched'.ran) : sched'.ran[j].id /= sched'.queued_fns[i].id
             /\ Len(sched'.queued_fns) = Len(sched.queued_fns) - (Len(sched'.ran) - Len(sched.ran))
                                           + (sched'.ids - sched.ids)
       /\ sched'.turn = sched.turn => sched'.ran = sched.ran]_vars

\* A task that ran in the last turn scheduled tasks, which wait in the queue.
C20_Witness ==
    /\ sched.err = NoErr
    /\ sched.ran /= <<>>
    /\ sched.ran[Len(sched.ran)].turn = sched.turn
    /\ \E i \in 1..Len(sched.queued_fns) :
          /\ sched.queued_fns[i].spawns = MaxSpawn - 1
          /\ i + 1 \in 1..Len(sched.queued_fns)
          /\ sched.queued_fns[i + 1].spawns = MaxSpawn - 1

\* ------------------------------------------------------------------ mount

\* The append_child calls of l on parent handle h, in order.
AppendsOn(l, h) == SelectSeq(l, LAMBDA e : e.op = "append_child" /\ e.parent = h)

\* Views without a native type offered as native_parent of child c.
NonNativeParents(c) == {Unit, Wrap(FALSE, c), SWrap(c)}

\* C21: Root::new panics when native_parent has no native type; otherwise the
\* root instance keeps the handle passed in and is never created by the
\* renderer, the child is generated under it, and the child's nearest native
\* descendant, if there is one, is appended to the root handle by exactly one
\* append_child, the last call of the mount.
C21_Mount ==
    (TurnKind = "mount" /\ Completed) =>
       /\ \A np \in NonNativeParents(tree[1].component) :
             /\ RootNew(tree[1].component, np).err = ROOT_NATIVE_ERR
             /\ RootNew(tree[1].component, np).log = <<>>
       /\ tree[0].native_type = "root" /\ tree[0].native_handle = 0
       /\ tree[0].children = <<1>> /\ tree[1].parent = 0
       /\ \A i \in 1..Len(log) : log[i].op = "create_component" => log[i].node /= 0
       /\ tree[1].component /= Unit => Rendered(1)
       /\ IF HasNative(Here, 1)
          THEN /\ AppendsOn(log, 0) = <<[op |-> "append_child", parent |-> 0,
                                         child |-> NativeHandleOf(Here, 1)]>>
               /\ log[Len(log)] = AppendsOn(log, 0)[1]
               /\ dom[0] = <<NativeHandleOf(Here, 1)>>
          ELSE AppendsOn(log, 0) = <<>> /\ dom[0] = <<>>

\* A mount whose child is not native itself and has a native descendant, which
\* was appended to the root handle.
C21_Witness ==
    /\ TurnKind = "mount" /\ Completed
    /\ tree[1].native_handle = NoHandle
    /\ HasNative(Here, 1)
    /\ dom[0] = <<NativeHandleOf(Here, 1)>>

\* ------------------------------------------------------------------ counter

\* A root rendering one text node whose text is a state cell initialised to 0.
InitCounter == Mounted(RootNew(Counter(0), RootView(Counter(0))))

\* The number in the counter's cell.
Count == tree[1].state[1][1].text

\* The setter writes the cell's number plus one.
Increment == /\ err = NoErr
             /\ Count < MaxCount
             /\ gen' = gen + 1
             /\ Becomes(SetStateTask(Here, 1, <<TextOf(Count + 1)>>))

NextCounter == Increment

SpecCounter == InitCounter /\ [][NextCounter]_vars

RendererOps == ParentOps \cup {"create_component", "update_component"}

\* The renderer calls of log l, in order.
RendererCalls(l) == SelectSeq(l, LAMBDA e : e.op \in RendererOps)

\* C22: the k-th increment turn makes exactly one renderer call, the
\* update_component of the text node with the text k; so three successive
\* increments from 0 carry 1, 2, 3 in that order.
C22_CounterUpdates ==
    /\ Completed
    /\ Count = gen - (FirstGen + 1)
    /\ TurnKind = "set_state" =>
          RendererCalls(log) = <<[op |-> "update_component", node |-> 2, handle |-> 2,
                                  component |-> TextOf(gen - (FirstGen + 1))]>>
    /\ tree[2].native_type = "text" /\ tree[2].component.text = Count
    /\ dom[0] = <<2>>

\* The third increment has been made.
C22_Witness ==
    /\ Completed /\ TurnKind = "set_state"
    /\ gen = FirstGen + 1 + 3
    /\ \E i \in 1..Len(log) : log[i].op = "update_component" /\ log[i].component.text = 3

\* ------------------------------------------------------------------ swaps

\* The keys of the children of node, in child-list order.
KeysOf(S, node) == [i \in 1..len(S, node) |-> S.tree[child(S, node, i - 1)].component.key]

\* seq with the elements at positions i and j (1-based) exchanged.
Exchanged(seq, i, j) ==
    [k \in DOMAIN seq |-> IF k = i THEN seq[j] ELSE IF k = j THEN seq[i] ELSE seq[k]]

\* The update of node 1 that renders its keyed children in the order keys.
Reordered(S, keys, u) == SetStateTask(S, 1, KeyedTexts(keys, u))

\* C23: an update that exchanges two keyed siblings exchanges their native
\* nodes, and the next update that exchanges them back leaves the native
\* children in the order they had before the first; swap_children(a, b)
\* applied twice restores the children, and swap_children(a, a) changes
\* nothing.
C23_SwapBack ==
    Completed =>
       /\ \A i, j \in 1..len(Here, 1) : \A u, v \in BOOLEAN :
             i < j =>
                LET keys == KeysOf(Here, 1)
                    A == Reordered(Here, Exchanged(keys, i, j), u)
                    B == Reordered(A, keys, v)
                IN /\ A.err = NoErr /\ B.err = NoErr
                   /\ A.dom[1] = Exchanged(dom[1], i, j)
                   /\ B.dom = dom
       /\ \A a, b \in 0..(Len(dom[1]) - 1) :
             LET T == swap_children(swap_children(Here, 1, a, b), 1, a, b)
             IN T.err = NoErr /\ T.dom = dom
       /\ \A a \in 0..Len(dom[1]) :
             LET T == swap_children(Here, 1, a, a)
             IN T.err = NoErr /\ T.dom = dom

\* Two siblings that are not neighbours were exchanged by an update and
\* exchanged back by the next.
C23_Witness ==
    /\ Completed /\ TurnKind = "set_state"
    /\ gen = FirstGen + 1 + 2
    /\ len(Here, 1) = 3
    /\ KeysOf(Here, 1) = <<1, 2, 3>>
    /\ dom[1] = <<2, 3, 4>>
    /\ \E i \in 1..Len(log) : log[i] = [op |-> "swap_children", parent |-> 1, a |-> 0, b |-> 2]

\* ------------------------------------------------------------------ children_offset

\* The children the mount element has before the mount.
Existing(k) == [i \in 1..k |-> Foreign(i)]

\* The apps mounted on an element that has children: the child of the root
\* gains, changes and loses its native node.
OffsetApps == {SWrap(c) : c \in WrapKids} \cup {SDiv(<<>>), SDiv(<<Text(1, TRUE)>>)}

\* mount: children_offset is the element's child count, then Root::new.
InitOffset == \E k \in 0..MaxOffset : \E app \in OffsetApps :
                 /\ offset = k
                 /\ tree = RootNewOn(app, RootView(app), Existing(k)).tree
                 /\ next = RootNewOn(app, RootView(app), Existing(k)).next
                 /\ dom = RootNewOn(app, RootView(app), Existing(k)).dom
                 /\ log = Begin("mount", 0) \o RootNewOn(app, RootView(app), Existing(k)).log
                 /\ err = RootNewOn(app, RootView(app), Existing(k)).err
                 /\ gen = FirstGen + 1
                 /\ sched = WebSchedulerNew

SpecOffset == InitOffset /\ [][Next]_vars

\* A parent with the offset of the mount element, its children before the
\* mount, and m children behind them.
Probe(m) == [Here EXCEPT !.dom = (0 :> (Existing(offset) \o [i \in 1..m |-> 100 + i])) @@
                                 (200 :> <<>>),
                         !.err = NoErr]

\* The elements of seq before position k + 1.
Prefix(seq, k) == SubSeq(seq, 1, k)

\* C24: the children the mount element had before the mount stay first and
\* in place through every turn; on a parent with offset k every renderer
\* call with an index acts on position index + k, and truncate_children(len)
\* removes exactly the children from position k + len on.
C24_OffsetKept ==
    /\ Len(dom[0]) >= offset
    /\ Prefix(dom[0], offset) = Existing(offset)
    /\ \A m \in 0..3 :
          LET l == Probe(m).dom[0]
              k == offset
          IN /\ \A i \in 0..m :
                   insert_child(Probe(m), 0, i, 200).dom[0] = InsertAt(l, i + k, 200)
             /\ \A i \in 0..(m - 1) :
                   /\ replace_child(Probe(m), 0, i, 200).dom[0] = [l EXCEPT ![i + k + 1] = 200]
                   /\ remove_child(Probe(m), 0, i).dom[0] = RemoveAt(l, i + k)
                   /\ \A j \in 0..(m - 1) :
                         swap_children(Probe(m), 0, i, j).dom[0] = SwapAt(l, i + k, j + k)
             /\ append_child(Probe(m), 0, 200).dom[0] = Append(l, 200)
             /\ \A length \in 0..(m + 1) :
                   truncate_children(Probe(m), 0, length).dom[0]
                      = Prefix(l, IF length < m THEN k + length ELSE k + m)

\* An update replaced or removed the root's managed child behind two children
\* of the mount element.
C24_Witness ==
    /\ offset = 2 /\ AfterUpdate
    /\ \E i \in 1..Len(log) :
          /\ log[i].op \in {"replace_child", "remove_child", "insert_child"}
          /\ log[i].parent = 0
    /\ Prefix(dom[0], 2) = <<Foreign(1), Foreign(2)>>

\* ------------------------------------------------------------------ dirty ancestors

\* The children a nested stateful wrapper renders: every instance below it
\* has changed props at each render.
NestedKids == {Unit, TextB(TRUE), Wrap(TRUE, Unit), Wrap(TRUE, TextB(TRUE)), Wrap(FALSE, Unit)}

\* Apps whose stateful instance lies under instances that are not native.
NestedApps == {Wrap(u, SWrap(c)) : u \in BOOLEAN, c \in NestedKids}
                 \cup {SWrap(c) : c \in NestedKids}

InitNested == \E app \in NestedApps : Mounted(RootNew(app, RootView(app)))

\* A state setter of a nested stateful wrapper writes its cell.
SetNested == /\ err = NoErr
             /\ gen < FirstGen + 1 + MaxTurns
             /\ gen' = gen + 1
             /\ \E node \in DOMAIN tree :
                  /\ tree[node].component.hook /= 0
                  /\ tree[node].component.hook \in DOMAIN tree[node].state
                  /\ \E c \in NestedKids : Becomes(SetStateTask(Here, node, <<c>>))

NextNested == SetNested \/ Dispatch

SpecNested == InitNested /\ [][NextNested]_vars

\* The render events of log l that update_vnode made: those of instances
\* that were not pushed in the turn.
UpdateRenders(l) ==
    {i \in 1..Len(l) : /\ l[i].op = "render"
                       /\ \A j \in 1..Len(l) : l[j].op = "push" => l[j].node /= l[i].node}

\* The strict ancestors of node.
RECURSIVE AncestorsOf(_, _)
AncestorsOf(S, node) ==
    IF node \notin DOMAIN S.tree THEN {}
    ELSE IF S.tree[node].parent = NoNode THEN {}
    ELSE {S.tree[node].parent} \cup AncestorsOf(S, S.tree[node].parent)

\* C25 as stated: at every render of update_vnode, every ancestor of the
\* instance below its nearest native ancestor is dirty.
C25_AncestorsDirty ==
    AfterUpdate => \A i \in UpdateRenders(log) : log[i].clean = {}

\* C25 amended: at every render of update_vnode, every ancestor of the
\* instance below its nearest native ancestor is dirty, except the ancestors
\* of the instance the turn's update_vnode was called on.
C25_AncestorsDirtyBelowTurn ==
    AfterUpdate => \A i \in UpdateRenders(log) : log[i].clean \subseteq AncestorsOf(Here, TurnNode)

\* An update re-rendered an instance two levels below the instance the turn
\* was called on, under an ancestor that is not native.
C25_Witness ==
    /\ Completed /\ AfterUpdate
    /\ \E i \in UpdateRenders(log) :
          /\ log[i].node /= TurnNode
          /\ tree[log[i].node].parent /= TurnNode
          /\ TurnNode \in AncestorsOf(Here, log[i].node)
          /\ tree[tree[log[i].node].parent].native_handle = NoHandle

\* ------------------------------------------------------------------ generation order

\* The instance an event of generate_vnode is about.
EventNode(e) ==
    IF e.op \in {"push", "render", "create_component"} THEN e.node
    ELSE IF e.op = "append_child" THEN e.parent
    ELSE NoNode

\* Event e is about instance c or a descendant of c.
EventWithin(e, c) ==
    /\ EventNode(e) /= NoNode
    /\ EventNode(e) = c \/ c \in AncestorsOf(Here, EventNode(e))

\* The children of n that have a native descendant, in child-list order.
NativeKids(n) == SelectSeq(tree[n].children, LAMBDA c : HasNative(Here, c))

\* C26: a native instance n generated in the turn is created right after its
\* render and before any event of its descendants; the appends on n are one
\* per child with a native descendant, in child-list order; and the append
\* of a child comes after every event of that child's subtree and before
\* every event of the subtrees of the children after it.
C26_GenerateOrder ==
    \A i \in 1..Len(log) :
       (log[i].op = "create_component" /\ log[i].node \in DOMAIN tree) =>
          LET n == log[i].node
              kids == NativeKids(n)
              apps == {a \in 1..Len(log) : log[a].op = "append_child" /\ log[a].parent = n}
          IN /\ i > 1 /\ log[i - 1].op = "render" /\ log[i - 1].node = n
             /\ \A j \in 1..Len(log) :
                   (n \in AncestorsOf(Here, EventNode(log[j])) /\ EventNode(log[j]) /= NoNode)
                      => j > i
             /\ AppendsOn(log, n) = [k \in 1..Len(kids) |->
                                       [op |-> "append_child", parent |-> n,
                                        child |-> NativeHandleOf(Here, kids[k])]]
             /\ \A a \in apps : \A k \in 1..Len(tree[n].children) :
                   LET c == tree[n].children[k]
                       own == HasNative(Here, c) /\ NativeHandleOf(Here, c) = log[a].child
                       later == \E k0 \in 1..(k - 1) :
                                   /\ HasNative(Here, tree[n].children[k0])
                                   /\ NativeHandleOf(Here, tree[n].children[k0]) = log[a].child
                   IN \A j \in 1..Len(log) :
                         EventWithin(log[j], c) =>
                            /\ own => j < a
                            /\ later => j > a

\* A native instance was generated with two children that have native
\* descendants, the first of them below a wrapper.
C26_Witness ==
    /\ Completed
    /\ \E i \in 1..Len(log) :
          /\ log[i].op = "create_component"
          /\ Len(NativeKids(log[i].node)) = 2
          /\ tree[NativeKids(log[i].node)[1]].native_handle = NoHandle

\* ------------------------------------------------------------------ unit view

\* Log l has an event about instance n: its render, its creation, or a
\* renderer call on its handle.
Touched(l, n) ==
    \E i \in 1..Len(l) :
       \/ l[i].op \in {"render", "create_component", "update_component"} /\ l[i].node = n
       \/ l[i].op \in ParentOps /\ l[i].parent = n

\* C27: generate_vnode returns at once on an instance of the unit view, and
\* an instance of the unit view is never rendered, in generation or in an
\* update, has no renderer call made for it, and has no native type, no
\* handle, no state and no children.
C27_UnitInert ==
    /\ \A n \in DOMAIN tree :
          tree[n].component.ty = "unit" =>
             /\ tree[n].native_type = None /\ tree[n].native_handle = NoHandle
             /\ tree[n].state = <<>> /\ tree[n].children = <<>>
             /\ ~Touched(log, n)
    /\ \A m \in DOMAIN tree :
          LET P == Push([Here EXCEPT !.err = NoErr], m, VNodeComponent(Unit, m))
          IN generate_vnode(P, NewId(Here)) = P

\* An update generated an instance of the unit view under a wrapper that was
\* re-rendered.
C27_Witness ==
    /\ Completed /\ AfterUpdate
    /\ \E n \in DOMAIN tree :
          /\ tree[n].component.ty = "unit"
          /\ \E i \in 1..Len(log) : log[i].op = "push" /\ log[i].node = n
          /\ Rendered(tree[n].parent)

\* ------------------------------------------------------------------ native self-update

\* The component types a view of another type may be given.
Retypes == {"text", "textb", "wrap"}

\* The views instance c may be updated with: those of its identity, its own
\* component with props changed or not, and each of them as a component of
\* another type.
UpdateViews(c) ==
    LET same == RetainViews(c) \cup {[tree[c].component EXCEPT !.upd = u] : u \in BOOLEAN}
    IN same \cup {[v EXCEPT !.ty = t] : v \in same, t \in Retypes}

\* The update_component events of log l for instance c.
SelfUpdates(l, c) == {i \in 1..Len(l) : l[i].op = "update_component" /\ l[i].node = c}

\* C28: one update_vnode call on instance c calls update_component for c at
\* most once, only with a new component of the old component's type whose
\* native type is set, and as the last event of the call, after the children
\* were diffed and updated; without a new component, or with one of another
\* type, it is not called and c's native_type stays as it was.
C28_SelfUpdateOnce ==
    Completed =>
       \A c \in DOMAIN tree \ {0} : \A d \in BOOLEAN : \A v \in UpdateViews(c) \cup {NoView} :
          LET U == update_vnode([Entered(tree[c].parent) EXCEPT !.tree[c].dirty = d], v, c)
              ucs == SelfUpdates(U.log, c)
          IN U.err = NoErr =>
                /\ Cardinality(ucs) <= 1
                /\ ucs /= {} =>
                      /\ v /= NoView
                      /\ v.ty = tree[c].component.ty
                      /\ native_type(v) /= None
                      /\ ucs = {Len(U.log)}
                      /\ U.log[Len(U.log)].component = v
                      /\ U.log[Len(U.log)].handle = tree[c].native_handle
                /\ (v = NoView \/ v.ty /= tree[c].component.ty) =>
                      /\ ucs = {}
                      /\ c \in DOMAIN U.tree => U.tree[c].native_type = tree[c].native_type

\* An update re-rendered a native child with a new component and called
\* update_component for it, under a native instance with two children that
\* have native nodes.
C28_Witness ==
    /\ Completed /\ AfterUpdate
    /\ \E i, j \in 1..Len(log) :
          /\ i < j
          /\ log[i].op = "render" /\ log[j].op = "update_component"
          /\ log[i].node = log[j].node
          /\ log[j].component = tree[log[j].node].component
          /\ IsNative(Here, tree[log[j].node].parent)
          /\ Len(NativeKids(tree[log[j].node].parent)) = 2

\* ------------------------------------------------------------------ creation

\* The create_component events of log l for instance n.
Creations(l, n) == {i \in 1..Len(l) : l[i].op = "create_component" /\ l[i].node = n}

\* Instance n was pushed into the tree in the events of log l.
PushedIn(l, n) == \E i \in 1..Len(l) : l[i].op = "push" /\ l[i].node = n

\* C29: create_component is called once for each native instance other
\* than the root, in the turn that generates it (the mount included); a turn
\* never calls it for the root or for an instance that was there before the
\* turn, and every native instance keeps the handle made for it.
C29_CreatedOnce ==
    /\ Creations(log, 0) = {}
    /\ \A n \in DOMAIN tree \ {0} :
          LET made == PushedIn(log, n) /\ tree[n].native_type /= None
          IN /\ Cardinality(Creations(log, n)) <= (IF made THEN 1 ELSE 0)
             /\ Completed /\ made => Cardinality(Creations(log, n)) = 1
             /\ tree[n].native_type /= None /\ (Completed \/ ~PushedIn(log, n))
                   => tree[n].native_handle = n
             /\ tree[n].native_type = None => tree[n].native_handle = NoHandle

\* An update re-rendered a retained native instance and created a new one
\* beside it.
C29_Witness ==
    /\ Completed /\ AfterUpdate
    /\ \E n, m \in DOMAIN tree :
          /\ tree[n].native_type /= None /\ tree[m].native_type /= None
          /\ Creations(log, n) /= {}
          /\ Creations(log, m) = {} /\ Rendered(m) /\ m /= TurnNode
          /\ \A i \in 1..Len(log) : log[i].op = "push" => log[i].node /= m

\* ------------------------------------------------------------------ propagation

\* The ancestors of node that have a native handle.
NativeAncestors(node) == {a \in AncestorsOf(Here, node) : tree[a].native_handle /= NoHandle}

\* The strict ancestors of node below every native ancestor of node.
BelowNative(node) ==
    {a \in AncestorsOf(Here, node) :
        /\ tree[a].native_handle = NoHandle
        /\ \A p \in NativeAncestors(node) : p \in AncestorsOf(Here, a)}

\* C30: propogate_update_to_native_parent(node) marks dirty the strict
\* ancestors of node below its nearest native ancestor, returns that
\* ancestor, which every instance other than the root has, and changes
\* nothing else; the native parent update_vnode expects is always found.
C30_PropagateFrame ==
    /\ err /= NATIVE_PARENT_ERR
    /\ Completed =>
          \A node \in DOMAIN tree :
             LET R == propogate_update_to_native_parent(Here, node)
             IN /\ IF node = 0 THEN R.node = NoNode
                   ELSE /\ R.node \in NativeAncestors(node)
                        /\ \A p \in NativeAncestors(node) \ {R.node} : p \in AncestorsOf(Here, R.node)
                /\ R.S = [Here EXCEPT !.tree =
                            [n \in DOMAIN tree |->
                               IF n \in BelowNative(node)
                               THEN [tree[n] EXCEPT !.dirty = TRUE] ELSE tree[n]]]

\* A state write changed the identity of the child of an instance under a
\* wrapper that is not native: the update restarted at the native ancestor.
C30_Witness ==
    /\ Completed /\ TurnKind = "set_state"
    /\ Len(log) >= 3
    /\ log[2].op = "render" /\ log[2].node = TurnNode
    /\ log[3].op = "render" /\ log[3].node = 0
    /\ tree[TurnNode].parent /= 0
    /\ BelowNative(TurnNode) /= {}

\* ------------------------------------------------------------------ restart

\* The nearest ancestor of node that has a native handle.
NearestNative(node) ==
    CHOOSE p \in NativeAncestors(node) :
       \A q \in NativeAncestors(node) \ {p} : q \in AncestorsOf(Here, p)

\* The identity of the child rendered for c with view v in state S differs
\* from that of c's child.
IdentityChanges(S, v, c) ==
    ChildId(S.tree[child(S, c, 0)].component)
       /= ChildId(RenderChildren(SwapComponent(S, v, c).tree[c])[1])

\* The component update_vnode keeps of the one it swapped out.
OldOf(S, v, c) == IF v /= NoView THEN S.tree[c].component ELSE NoView

\* The call on c restarts at p: R is the state the restart begins in, P the
\* result of the propagation, U the result of the call.
RestartsAt(S, c, p, P, R, U) ==
    /\ P.node = p
    /\ R.tree[p].dirty
    /\ R.tree[c].component = S.tree[c].component
    /\ \A m \in DOMAIN R.tree \ {p, c} : R.tree[m] = P.S.tree[m]
    /\ R.tree[c] = [P.S.tree[c] EXCEPT !.component = S.tree[c].component]
    /\ R.log = P.S.log /\ R.dom = P.S.dom /\ R.next = P.S.next
    /\ U = update_vnode(R, NoView, p)

\* The call on c in state S with view v, where S0 is the state after the
\* render: what the native-identity step does, by the identity of the child
\* rendered and the dirty flag of the nearest native ancestor.
IdentityStep(S, v, c, S0) ==
    IF IdentityChanges(S, v, c)
    THEN IF ~S.tree[NearestNative(c)].dirty
         THEN RestartsAt(S, c, NearestNative(c), propogate_update_to_native_parent(S0, c),
                         RestartAt(propogate_update_to_native_parent(S0, c), c, OldOf(S, v, c)),
                         update_vnode(S, v, c))
         ELSE update_vnode(S, v, c)
                 = Diff(propogate_update_to_native_parent(S0, c).S, c,
                        RenderChildren(S0.tree[c]), OldOf(S, v, c), FALSE)
    ELSE /\ \A a \in AncestorsOf(S, c) : S0.tree[a].dirty = S.tree[a].dirty
         /\ update_vnode(S, v, c) = Diff(S0, c, RenderChildren(S0.tree[c]), OldOf(S, v, c), FALSE)

\* The instances update_vnode can re-render that are not native.
Wrappers == {c \in DOMAIN tree : tree[c].native_handle = NoHandle /\ len(Here, c) = 1}

\* The states a call on c is made in: at the top of a turn, or from the
\* update of c's parent, and with c's own state written or not.
CallStates(c) ==
    {[S EXCEPT !.tree[c].dirty = d] : S \in {Entered(tree[c].parent), [Here EXCEPT !.log = <<>>]},
                                       d \in BOOLEAN}

\* C31: when update_vnode re-renders an instance that is not native and the
\* rendered child's identity differs from the current child's, then, if the
\* nearest native ancestor is not dirty, it is marked dirty, the instance has
\* the component it had before the call, the update runs on that ancestor
\* without a new component and nothing else is done; if the ancestor is
\* dirty, the call goes on with the child diff of the instance.  When the
\* identity is the same, the call goes on with the child diff and the dirty
\* flags of the ancestors are as they were.
C31_IdentityStep ==
    Completed =>
       \A c \in Wrappers : \A S \in CallStates(c) : \A v \in RetainViews(c) \cup {NoView} :
          ~ShouldSkip(IF v /= NoView THEN v.upd ELSE FALSE, S.tree[c].dirty)
             => IdentityStep(S, v, c, Render(SwapComponent(S, v, c), c))

\* A state write made a wrapper under a stateful wrapper render a child of
\* another identity, the update restarted at the root, and came back to it.
C31_Witness ==
    /\ Completed /\ TurnKind = "set_state" /\ Len(log) >= 5
    /\ ~IsNative(Here, TurnNode)
    /\ log[2].op = "render" /\ log[2].node = TurnNode
    /\ log[3].op = "render" /\ tree[log[3].node].parent = TurnNode
    /\ log[4].op = "render" /\ log[4].node = 0
    /\ \E i \in 5..Len(log) : log[i].op = "render" /\ log[i].node = log[3].node

\* ------------------------------------------------------------------ phases
\* A native instance that renders the list it is given, under a stateful
\* wrapper whose setter gives it another list.

InitList == \E l \in KidLists : Mounted(RootNew(SWrap(Div(l)), RootView(SWrap(Div(l)))))

Relist == /\ err = NoErr
          /\ gen < FirstGen + 1 + MaxTurns
          /\ gen' = gen + 1
          /\ \E l \in KidLists : Becomes(SetStateTask(Here, 1, <<Div(l)>>))

NextList == Relist

SpecList == InitList /\ [][NextList]_vars

\* The native instance the wrapper renders.
ListNode == child(Here, 1, 0)

\* The phase of update_vnode on n that event e of log l at index i belongs
\* to, 0 for the events of other instances.
Phase(l, i, n) ==
    LET e == l[i]
        removed_later == \E j \in (i + 1)..Len(l) : l[j].op = "tree_remove" /\ l[j].node = n
    IN IF e.op = "push" /\ e.parent = n THEN 1
       ELSE IF e.op = "append_child" /\ e.parent = n THEN 1
       ELSE IF e.op = "tree_swap" /\ e.node = n THEN 2
       ELSE IF e.op = "swap_children" /\ e.parent = n THEN 3
       ELSE IF e.op = "remove_child" /\ e.parent = n /\ removed_later THEN 4
       ELSE IF e.op = "tree_remove" /\ e.node = n THEN 5
       ELSE IF e.op \in {"replace_child", "insert_child", "remove_child"} /\ e.parent = n THEN 6
       ELSE IF e.op = "update_component" /\ e.node = n THEN 7
       ELSE 0

\* The events of log l within the subtree of c.
EventsWithin(l, c) ==
    {i \in 1..Len(l) :
        \/ EventWithin(l[i], c)
        \/ l[i].op = "update_component" /\ (l[i].node = c \/ c \in AncestorsOf(Here, l[i].node))}

\* The children of n that the turn did not create.
Retained(n) == {c \in Range(tree[n].children) : ~PushedIn(log, c)}

\* C32: within one update_vnode call on a native instance the events come
\* in phases: the new children are pushed, generated and appended in the
\* order of the new list, then come the swaps, then the removals of the
\* extra children, then the retained children are updated from the last to
\* the first, each followed by its own renderer call, then update_component
\* on the instance, once and last; the instance is rendered once and is not
\* dirty afterwards.
C32_PhaseOrder ==
    (Completed /\ AfterUpdate /\ Rendered(ListNode)) =>
       LET n == ListNode
           own == {i \in 1..Len(log) : Phase(log, i, n) > 0}
       IN /\ \A i, j \in own : i < j => Phase(log, i, n) <= Phase(log, j, n)
          /\ Cardinality({i \in 1..Len(log) : log[i].op = "render" /\ log[i].node = n}) = 1
          /\ \A i \in own : RenderedIn(SubSeq(log, 1, i), n)
          /\ Cardinality({i \in own : Phase(log, i, n) = 7}) = 1
          /\ Cardinality({i \in own : Phase(log, i, n) = 4})
                <= Cardinality({i \in own : Phase(log, i, n) = 5})
          /\ ~tree[n].dirty
          /\ \A c, d \in Range(tree[n].children) :
                PosOf(tree[n].children, c) < PosOf(tree[n].children, d) =>
                   /\ (PushedIn(log, c) /\ PushedIn(log, d)) =>
                         \A i \in EventsWithin(log, c), j \in EventsWithin(log, d) : i < j
                   /\ (~PushedIn(log, c) /\ ~PushedIn(log, d)) =>
                         \A i \in EventsWithin(log, c), j \in EventsWithin(log, d) : j < i
          /\ \A c \in Range(tree[n].children) : \A i \in EventsWithin(log, c) :
                /\ \A j \in own : Phase(log, j, n) = 7 => i < j
                /\ ~PushedIn(log, c) => \A j \in own : Phase(log, j, n) \in 1..5 => j < i
                /\ PushedIn(log, c) => \A j \in own : Phase(log, j, n) \in 2..7 => i < j
          /\ \A j \in own :
                (log[j].op \in {"replace_child", "insert_child"} /\ Phase(log, j, n) = 6) =>
                   \E c \in Retained(n) :
                      /\ HasNative(Here, c) /\ NativeHandleOf(Here, c) = log[j].child
                      /\ \A i \in EventsWithin(log, c) : i < j
                      /\ \A d \in Retained(n) :
                            PosOf(tree[n].children, d) < PosOf(tree[n].children, c) =>
                               \A i \in EventsWithin(log, d) : j < i

\* An update of the list created a child, swapped children, removed one and
\* updated a retained one.
C32_Witness ==
    /\ Completed /\ AfterUpdate /\ Rendered(ListNode)
    /\ \E i, j, k, m \in 1..Len(log) :
          /\ Phase(log, i, ListNode) = 1 /\ log[i].op = "append_child"
          /\ Phase(log, j, ListNode) = 3
          /\ Phase(log, k, ListNode) = 4
          /\ Phase(log, m, ListNode) = 6
          /\ log[Len(log)].op = "update_component" /\ log[Len(log)].node = ListNode

\* ------------------------------------------------------------------ native positions

\* The renderer's children after the renderer call e was made on d.
DomApply(d, e) ==
    LET R == [dom |-> d, log |-> <<>>, err |-> NoErr]
    IN IF e.op = "create_component"
       THEN [h \in DOMAIN d \cup {e.node} |-> IF h = e.node THEN <<>> ELSE d[h]]
       ELSE IF e.op = "append_child" THEN append_child(R, e.parent, e.child).dom
       ELSE IF e.op = "insert_child" THEN insert_child(R, e.parent, e.index, e.child).dom
       ELSE IF e.op = "swap_children" THEN swap_children(R, e.parent, e.a, e.b).dom
       ELSE IF e.op = "replace_child" THEN replace_child(R, e.parent, e.index, e.child).dom
       ELSE IF e.op = "remove_child" THEN remove_child(R, e.parent, e.index).dom
       ELSE d

\* The renderer's children after the first k events of log l were made on d.
RECURSIVE DomAfter(_, _, _)
DomAfter(d, l, k) == IF k = 0 THEN d ELSE DomApply(DomAfter(d, l, k - 1), l[k])

\* The retained children of the instance with handle h whose call for the
\* event at index j of the step's log it can be: for replace_child the child
\* whose native node is the one passed, for remove_child a child that had a
\* native node and has none now.
CallChildren(h, j) ==
    {c \in Range(tree'[h].children) \cap DOMAIN tree :
        /\ HasNative(Here, c)
        /\ IF log'[j].op = "replace_child"
           THEN HasNative(There, c) /\ NativeHandleOf(There, c) = log'[j].child
           ELSE ~HasNative(There, c)}

\* The calls native_update_vnode makes for retained children in the step.
RetainedCalls ==
    {j \in 1..Len(log') :
        /\ log'[j].op \in {"replace_child", "remove_child"}
        /\ Phase(log', j, log'[j].parent) = 6}

\* C33: the index of every replace_child and remove_child call made for a
\* retained child is the position the child's old native node has among the
\* parent's renderer-side children when the call is made.
C33_IndexIsPosition ==
    [][\A j \in RetainedCalls :
          LET h == log'[j].parent
              now == DomAfter(dom, log', j - 1)[h]
              at == log'[j].index + children_offset(h)
          IN /\ at < Len(now)
             /\ err' = NoErr =>
                   \E c \in CallChildren(h, j) : now[at + 1] = NativeHandleOf(Here, c)]_vars

\* ------------------------------------------------------------------ native reorder

\* The locals of update_vnode on native instance n with rendered children
\* when the tree swaps are done, before the native reorder.
BeforeReorder(n, children) ==
    SwapLoop(
      ScanChildren(
        CreateNew(ScanChildren([S |-> [Here EXCEPT !.log = <<>>], in_place |-> <<>>,
                                native_indices |-> <<>>, curr_native_idx |-> 0, taken |-> {},
                                map |-> <<>>],
                               n, 0, TRUE),
                  n, children, 0, TRUE),
        n, len(Here, n), FALSE),
      n, [i \in 1..Len(children) |-> ChildId(children[i])], 0)

\* The diff of n's children against the rendered children gets as far as the
\* native reorder.
Reorders(n, children) ==
    /\ tree[n].native_handle /= NoHandle
    /\ \A i \in 1..len(Here, n) : ~WalkPanics(Here, child(Here, n, i - 1))
    /\ ~HasDuplicates(ChildIds(Here, n))
    /\ ~HasDuplicates([i \in 1..Len(children) |-> ChildId(children[i])])
    /\ BeforeReorder(n, children).S.err = NoErr

\* The number of slots of map that hold their own index.
InPlace(map) == Cardinality({i \in 1..Len(map) : map[i] = i - 1})

\* The map after the first k swaps of calls.
RECURSIVE MapAfter(_, _, _)
MapAfter(map, calls, k) ==
    IF k = 0 THEN map ELSE SwapAt(MapAfter(map, calls, k - 1), calls[k].a, calls[k].b)

\* The children of n from position from on that have a native node, in the
\* state of D.
NativeExtras(D, n, from) ==
    {i \in from..(len(D.S, n) - 1) : child_with_native_handle(D.S, child(D.S, n, i)) /= NoNode}

\* The native reorder on locals D with the position map: R is the result of
\* the loop, calls the renderer calls it made.
ReorderEnds(D, n, map, R, calls, new_len) ==
    /\ Len(map) = Len(SelectSeq(D.native_indices, LAMBDA x : x /= NoIdx))
    /\ Range(map) = 0..(Len(map) - 1)
    /\ \A k \in 1..Len(calls) :
          /\ calls[k].op = "swap_children" /\ calls[k].parent = tree[n].native_handle
          /\ InPlace(MapAfter(map, calls, k)) > InPlace(MapAfter(map, calls, k - 1))
    /\ R.map = MapAfter(map, calls, Len(calls))
    /\ R.map = [i \in 1..Len(map) |-> i - 1]
    /\ Cardinality(NativeExtras(R, n, new_len)) <= Len(R.map)

\* C34: for every child diff of a native instance the position map built
\* from native_indices is a permutation with no unassigned slot, every
\* swap_children call puts at least one more slot in place, the loop ends
\* with the identity map, and the map has an entry to pop for every extra
\* child with a native node.
C34_ReorderEnds ==
    Completed =>
       \A n \in DOMAIN tree :
          (tree[n].component.hook /= 0 /\ tree[n].native_handle /= NoHandle) =>
             \A children \in CellValues(tree[n].component) :
                Reorders(n, children) =>
                   ReorderEnds(BeforeReorder(n, children), n,
                               NativeIndicesMap(SelectSeq(BeforeReorder(n, children).native_indices,
                                                          LAMBDA x : x /= NoIdx)),
                               NativeReorder(
                                 [BeforeReorder(n, children) EXCEPT
                                    !.map = NativeIndicesMap(
                                              SelectSeq(BeforeReorder(n, children).native_indices,
                                                        LAMBDA x : x /= NoIdx))],
                                 n, 0),
                               CallsAfter(NativeReorder(
                                 [BeforeReorder(n, children) EXCEPT
                                    !.map = NativeIndicesMap(
                                              SelectSeq(BeforeReorder(n, children).native_indices,
                                                        LAMBDA x : x /= NoIdx))],
                                 n, 0).S.log, Len(BeforeReorder(n, children).S.log)),
                               Len(children))

\* ------------------------------------------------------------------ generation

\* The render events of log l.
Renders(l) == {i \in 1..Len(l) : l[i].op = "render"}

\* The mount passes one generation to every generate_vnode call, and the
\* root's counter is incremented once, after generate_vnode and the append
\* to the root handle.
MountIncrementsLast ==
    (TurnKind = "mount" /\ Completed) =>
       LET A == native_append_child(
                  RootGenerated(tree[1].component, tree[0].component, <<>>), 0, 1)
       IN /\ \A i, j \in Renders(log) : log[i].gen = log[j].gen
          /\ \A i \in Renders(log) : log[i].vdom_gen = FirstGen
          /\ A.vdom_gen = FirstGen
          /\ RootNew(tree[1].component, tree[0].component) = [A EXCEPT !.vdom_gen = FirstGen + 1]
          /\ gen = FirstGen + 1

\* C35: during Root::new every render context holds the value the root's
\* generation counter has at that time, the same generation is passed to
\* every generate_vnode call of the mount, and the counter is incremented
\* once, after generation and the append to the root handle.
C35_MountGeneration ==
    /\ MountIncrementsLast
    /\ (TurnKind = "mount" /\ Completed) =>
          \A i \in Renders(log) : log[i].gen = log[i].vdom_gen

\* ------------------------------------------------------------------ native events

\* The attribute names of the elements checked.
AttrNames == {"click", "value"}

\* Attr::Handler and Attr::Prop(Option<String>).
Attrs == {[kind |-> "handler"]} \cup {[kind |-> "prop", prop |-> p] : p \in {None, "a"}}

\* The attribute maps of a RawElement: name -> (Attr, updated).
AttrMaps ==
    UNION {[D -> [attr : Attrs, updated : BOOLEAN]] : D \in SUBSET AttrNames}

\* A RawElement as the renderer reads it: tag, attrs, attrs_updated.
RawElement(tag, attrs, attrs_updated) ==
    [ty |-> "raw", loc |-> 8, key |-> 0, upd |-> attrs_updated, kids |-> <<>>, hook |-> 0,
     tag |-> tag, attrs |-> attrs, attrs_updated |-> attrs_updated]

RawElements ==
    {RawElement(tag, attrs, u) : tag \in {"div", "input"}, attrs \in AttrMaps, u \in BOOLEAN}

\* Option::None of a NativeEvent.
NoEvent == [name |-> None]

INDEX_ERR == "no entry found for key"

\* The listeners create_component registers: one per Attr::Handler entry.
Listeners(raw_element) ==
    {name \in DOMAIN raw_element.attrs : raw_element.attrs[name].attr.kind = "handler"}

\* The if let Some(native_event) block of update_component: the slot is
\* looked up by indexing the map with the event's name.
RouteEvent(S, raw_element, native_event) ==
    IF native_event = NoEvent THEN S
    ELSE IF native_event.name \notin DOMAIN raw_element.attrs THEN Fail(S, INDEX_ERR)
    ELSE IF raw_element.attrs[native_event.name].attr.kind = "handler"
         THEN Emit(S, [op |-> "handler", name |-> native_event.name])
         ELSE S

\* What the attribute update does for an updated prop: set_value and
\* set_checked of an input, update_generic_prop otherwise.
PropCall(tag, name, prop) ==
    IF tag = "input" /\ name = "value"
    THEN (IF prop /= None THEN [call |-> "set_value", value |-> prop]
          ELSE [call |-> "none", value |-> None])
    ELSE IF prop /= None THEN [call |-> "set_attribute", value |-> prop]
    ELSE [call |-> "remove_attribute", value |-> None]

\* The if raw_element.attrs_updated block: one call per updated prop.
UpdateAttrs(S, handle, raw_element) ==
    IF S.err /= NoErr \/ ~raw_element.attrs_updated THEN S
    ELSE Emit(S, [op |-> "update_attrs", handle |-> handle,
                  props |-> [name \in {n \in DOMAIN raw_element.attrs :
                                          /\ raw_element.attrs[n].updated
                                          /\ raw_element.attrs[n].attr.kind = "prop"}
                             |-> PropCall(raw_element.tag, name,
                                          raw_element.attrs[name].attr.prop)]])

\* WebRenderer::update_component for an element.
WebRenderer_update_component(S, handle, raw_element, native_event) ==
    UpdateAttrs(RouteEvent(S, raw_element, native_event), handle, raw_element)

\* The element's state at the start of a turn.
ElementTurn(kind, name) ==
    [Here EXCEPT !.log = <<[op |-> "turn", kind |-> kind, node |-> 0, name |-> name]>>]

\* An element created for a RawElement, with the listeners of its handlers.
InitEvent ==
    \E raw_element \in RawElements :
       /\ tree = (0 :> [component |-> raw_element, native_handle |-> 0,
                        native_type |-> "avalanche_web", state |-> <<>>, dirty |-> FALSE,
                        parent |-> NoNode, children |-> <<>>,
                        listeners |-> Listeners(raw_element)])
       /\ next = 1
       /\ dom = (0 :> <<>>)
       /\ log = <<>>
       /\ err = NoErr
       /\ gen = FirstGen
       /\ sched = WebSchedulerNew
       /\ offset = 0

\* A re-render gives the element a new RawElement of the same tag and the
\* renderer updates it with no event.
UpdateElement ==
    /\ err = NoErr /\ gen < FirstGen + MaxTurns
    /\ \E raw_element \in RawElements :
          /\ raw_element.tag = tree[0].component.tag
          /\ LET R == WebRenderer_update_component(ElementTurn("update", None), 0,
                                                   raw_element, NoEvent)
             IN /\ tree' = [tree EXCEPT ![0].component = raw_element]
                /\ log' = R.log
                /\ err' = R.err
    /\ gen' = gen + 1
    /\ UNCHANGED <<next, dom, sched, offset>>

\* A listener of the element fires and the event reaches update_component
\* with the element's current component.
NativeEventUpdate ==
    /\ err = NoErr /\ gen < FirstGen + MaxTurns
    /\ \E name \in tree[0].listeners :
          LET R == WebRenderer_update_component(ElementTurn("event", name), 0,
                                                tree[0].component, [name |-> name])
          IN /\ log' = R.log
             /\ err' = R.err
    /\ gen' = gen + 1
    /\ UNCHANGED <<tree, next, dom, sched, offset>>

NextEvent == UpdateElement \/ NativeEventUpdate

SpecEvent == InitEvent /\ [][NextEvent]_vars

\* The slot of name on the component holds a handler.
CarriesHandler(raw_element, name) ==
    /\ name \in DOMAIN raw_element.attrs
    /\ raw_element.attrs[name].attr.kind = "handler"

\* C36: when update_component receives an event whose name carries no
\* handler on the current component (the slot holds a prop or the name is
\* not in the attribute map), no handler is called, nothing panics, and the
\* attribute update is the one of an update with no event.
C36_EventDropped ==
    (log /= <<>> /\ TurnKind = "event" /\ ~CarriesHandler(tree[0].component, log[1].name)) =>
       /\ err = NoErr
       /\ \A i \in 1..Len(log) : log[i].op /= "handler"
       /\ CallsAfter(log, 1)
             = CallsAfter(WebRenderer_update_component(ElementTurn("event", log[1].name), 0,
                                                       tree[0].component, NoEvent).log, 1)

\* ------------------------------------------------------------------ render counts

\* The render calls of the turn on instance n.
RendersOf(l, n) == {i \in Renders(l) : l[i].node = n}

\* The update restarted at a native ancestor: an instance is rendered after
\* one of its descendants was.
RestartTaken ==
    \E i, j \in Renders(log) : i < j /\ log[j].node \in AncestorsOf(Here, log[i].node)

\* The instances rendered in the turn.
RenderedNodes == {log[i].node : i \in Renders(log)}

\* C37 as stated: in one turn render is called at most once on any instance.
C37_RenderedOnce ==
    \A n \in RenderedNodes : Cardinality(RendersOf(log, n)) <= 1

\* C37 amended: in one turn render is called at most once on any instance
\* when no identity change restarts the update at the nearest native
\* ancestor, and at most twice when one does.
C37_RenderedOnceOrRestarted ==
    \A n \in RenderedNodes :
       Cardinality(RendersOf(log, n)) <= (IF RestartTaken THEN 2 ELSE 1)

\* A turn with a restart in which the instance that found the identity
\* change was rendered before the restart and again after it.
C37_Witness ==
    /\ Completed /\ RestartTaken
    /\ \E n \in RenderedNodes :
          /\ ~IsNative(Here, n)
          /\ Cardinality(RendersOf(log, n)) = 2
          /\ \E j \in Renders(log) :
                /\ log[j].node \in AncestorsOf(Here, n) /\ IsNative(Here, log[j].node)
                /\ \E i, k \in RendersOf(log, n) : i < j /\ j < k

\* ------------------------------------------------------------------ node pairs

\* The renderer calls made with a pair of nodes got from get_mut_pair.
PairCalls(l) ==
    {i \in 1..Len(l) : l[i].op \in {"append_child", "insert_child", "replace_child"}}

\* The calls of get_mut_pair that panicked, or whose unwraps did.
PairPanics(l) == {i \in 1..Len(l) : l[i].op = "panic" /\ "pair" \in DOMAIN l[i]}

\* C38: every get_mut_pair call of native_append_child, native_insert_child
\* and native_update_vnode gets a parent and a strict descendant of it, two
\* distinct nodes that both have a native type and handle, so neither the
\* call nor the unwraps after it panic.
C38_PairsDistinct ==
    /\ PairPanics(log) = {}
    /\ \A i \in PairCalls(log) :
          /\ log[i].parent /= log[i].child
          /\ log[i].parent /= NoHandle /\ log[i].child /= NoHandle
          /\ (log[i].child \in DOMAIN tree /\ log[i].parent \in DOMAIN tree) =>
                /\ log[i].parent \in AncestorsOf(Here, log[i].child)
                /\ tree[log[i].parent].native_type /= None
                /\ tree[log[i].child].native_type /= None

\* An update in which one child was inserted and another replaced.
C38_Witness ==
    /\ Completed /\ TurnKind = "set_state"
    /\ \E i, j \in PairCalls(log) :
          /\ log[i].op = "insert_child" /\ log[j].op = "replace_child"
          /\ {log[i].child, log[j].child} \subseteq DOMAIN tree

\* ------------------------------------------------------------------ scheduler progress

\* The scheduler with every posted timeout message delivered in the end: the
\* window delivers a message posted to it.
SpecSchedLive == InitSched /\ [][NextSched]_vars /\ WF_vars(Message)

\* The ids of the tasks that have run.
RanIds == {sched.ran[j].id : j \in 1..Len(sched.ran)}

\* The posted messages not yet delivered are as many as the queued tasks.
PostedIsQueued ==
    /\ sched.err = NoErr
    /\ sched.posted = Len(sched.queued_fns)

\* More task ids than the tasks scheduled from outside and by running tasks.
MaxIds == 2 * MaxTasks * (MaxSpawn + 1)

\* C39: the posted messages not yet delivered are always as many as the
\* queued tasks, and, every posted message being delivered in the end, every
\* task passed to schedule_on_ui_thread is executed in the end.
C39_EveryTaskRuns ==
    /\ ~<>(~PostedIsQueued)
    /\ \A i \in 1..MaxIds : (sched.ids >= i) ~> (i \in RanIds)

\* Tasks wait in the queue, each with a message posted for it, after a task
\* that ran scheduled some of them.
C39_Witness ==
    /\ sched.err = NoErr
    /\ Len(sched.queued_fns) >= 2
    /\ sched.posted = Len(sched.queued_fns)
    /\ sched.ran /= <<>>
    /\ \E i \in 1..Len(sched.queued_fns) : sched.queued_fns[i].spawns < MaxSpawn - 1

\* ------------------------------------------------------------------ termination

\* The renders that begin a restarted update: a native instance is rendered
\* after one of its descendants was.
RestartRenders(l) ==
    {j \in Renders(l) :
        /\ l[j].node \in DOMAIN tree /\ IsNative(Here, l[j].node)
        /\ \E i \in Renders(l) : i < j /\ l[j].node \in AncestorsOf(Here, l[i].node)}

\* C40: a top-level update_vnode call returns after a number of render calls
\* bounded by the instances of the tree, with the update of every instance
\* it rendered run to its end, and the restart at the nearest native
\* ancestor is taken at most once in it; every render after the restart
\* finds that ancestor dirty.
C40_OneRestart ==
    /\ Cardinality(Renders(log)) <= 2 * next
    /\ (Completed /\ AfterUpdate) =>
          \A i \in Renders(log) : log[i].node \in DOMAIN tree => ~tree[log[i].node].dirty
    /\ Cardinality(RestartRenders(log)) <= 1
    /\ \A j \in RestartRenders(log) : \A k \in Renders(log) :
          (k > j /\ log[j].node \in AncestorsOf(Here, log[k].node))
             => log[j].node \notin log[k].clean

\* A state write restarted the update at a native instance, and instances
\* below it were rendered in the restarted update.
C40_Witness ==
    /\ Completed /\ TurnKind = "set_state"
    /\ \E j \in RestartRenders(log) :
          Cardinality({k \in Renders(log) :
                          k > j /\ log[j].node \in AncestorsOf(Here, log[k].node)}) >= 2

====
